---- MODULE Spec2Model ----
(***************************************************************************)
(* Model of src/invoice.py (class Invoice): the conversion of one Alma     *)
(* invoice into PAC fixed-width card lines; of the batch drivers           *)
(* src/process_invoices.py and src/invoices/process_invoices.py; and of    *)
(* the 966 bookplate fields of src/add_bib_ebookplates.py and              *)
(* src/update_bookplates_one_time.py.                                      *)
(*                                                                         *)
(* Strings are TLA+ strings, sliced and joined character by character.     *)
(* Decimal amounts are exact integers counted in cents; a product with a   *)
(* two-decimal rate is counted in hundredths of a cent.                    *)
(***************************************************************************)
EXTENDS Integers, Sequences, FiniteSets, TLC

VARIABLES
    xml,                \* the <invoice> element handed to Invoice(xml, ns)
    pc,                 \* position in __init__ / is_valid / get_pac_format
    hdr,                \* header keys of self.data set by _get_invoice_data
    invoice_lines,      \* self.data['invoice_lines']
    pac,                \* pac_invoice_number, pac_vck, pac_due_date
    totals,             \* the total_* keys set by _calculate_totals
    pac_invoice_type,   \* self.data['pac_invoice_type']
    pac_lines,          \* self.data['pac_lines']
    valid,              \* value returned by is_valid
    validation_message, \* self.data['validation_message']
    pac_format,         \* value returned by get_pac_format
    script,             \* the driver that runs, if any
    argv,               \* the command line of the driver
    args,               \* the namespace of _get_arguments, as main changes it
    production_mode,    \* production_mode of main / PROD of the older driver
    root,               \* the <invoice> elements of the XML file, in order
    position,           \* how many elements the for loop has taken
    pac_file,           \* content of the file _get_pac_filename() names
    printed,            \* the lines printed so far
    uploaded,           \* the contents handed to upload_pac_file
    driver_pc,          \* position in main / create_pac_invoices
    marc_record,        \* the 966 fields of the bib record, in order
    report_item,        \* spac_code, spac_name and spac_url of a report item
    field_966,          \* a 966 field that a function is called on
    called,             \* the function of the bookplate scripts called last
    needs_update,       \* value returned by needs_bookplate_update
    total_bibs_updated, \* counter of add_bookplates
    total_bibs_skipped  \* counter of add_bookplates

invoice_vars == <<xml, pc, hdr, invoice_lines, pac, totals, pac_invoice_type,
                  pac_lines, valid, validation_message, pac_format>>

driver_vars == <<script, argv, args, production_mode, root, position,
                 pac_file, printed, uploaded, driver_pc>>

bookplate_vars == <<marc_record, report_item, field_966, called, needs_update,
                    total_bibs_updated, total_bibs_skipped>>

\* what no method of Invoice touches
env_vars == <<driver_vars, bookplate_vars>>

vars == <<invoice_vars, env_vars>>

-----------------------------------------------------------------------------
(* Bounds of the checked input space.                                      *)

MaxLines == 2
MaxAmt == 2
MaxShip == 24

-----------------------------------------------------------------------------
(* Python values and string primitives.                                    *)

\* None: a value no XML text can take, since _get_value strips line feeds.
None == "\n"

Min(a, b) == IF a < b THEN a ELSE b
Abs(a) == IF a < 0 THEN 0 - a ELSE a

Char(s, i) == SubSeq(s, i, i)

\* s[a:b] for 0 <= a <= b
Slice(s, a, b) ==
    IF a >= Len(s) THEN "" ELSE SubSeq(s, a + 1, Min(b, Len(s)))

RECURSIVE Repeat(_, _)
Repeat(c, n) == IF n <= 0 THEN "" ELSE c \o Repeat(c, n - 1)

ljust(s, n, c) == s \o Repeat(c, n - Len(s))
rjust(s, n, c) == Repeat(c, n - Len(s)) \o s

startswith(s, p) == Len(p) <= Len(s) /\ SubSeq(s, 1, Len(p)) = p

Digits == "0123456789"
UpperLetters == "ABCDEFGHIJKLMNOPQRSTUVWXYZ"
LowerLetters == "abcdefghijklmnopqrstuvwxyz"
OtherAscii == " !\"#$%&'()*+,-./:;<=>?@[\\]^_{|}~\t\n\r"

CharsOf(s) == {Char(s, i) : i \in 1..Len(s)}

DigitChars == CharsOf(Digits)
UpperChars == CharsOf(UpperLetters)
LowerChars == CharsOf(LowerLetters)
AsciiChars == DigitChars \cup UpperChars \cup LowerChars \cup CharsOf(OtherAscii)

isascii(s) == \A i \in 1..Len(s) : Char(s, i) \in AsciiChars

isdigit(c) == c \in DigitChars
isupperletter(c) == c \in UpperChars

IndexIn(s, c) == CHOOSE i \in 1..Len(s) : Char(s, i) = c

upper_char(c) ==
    IF c \in LowerChars
    THEN Char(UpperLetters, IndexIn(LowerLetters, c))
    ELSE IF c = "é" THEN "É" ELSE c

\* the characters of s mapped by Op, joined (halving keeps the nesting flat)
MapChars(Op(_), s) ==
    LET RECURSIVE go(_, _)
        go(lo, hi) ==
            IF lo > hi THEN ""
            ELSE IF lo = hi THEN Op(Char(s, lo))
            ELSE LET mid == (lo + hi) \div 2
                 IN go(lo, mid) \o go(mid + 1, hi)
    IN go(1, Len(s))

upper(s) == MapChars(upper_char, s)

\* str(n) for an integer n >= 0
RECURSIVE str_nat(_)
str_nat(n) ==
    IF n < 10 THEN Char(Digits, n + 1)
    ELSE str_nat(n \div 10) \o Char(Digits, (n % 10) + 1)

\* int(s) for a string of decimal digits
RECURSIVE int(_)
int(s) ==
    IF Len(s) = 0 THEN 0
    ELSE 10 * int(SubSeq(s, 1, Len(s) - 1))
            + (IndexIn(Digits, Char(s, Len(s))) - 1)

\* '\n'.join(lines)
RECURSIVE join(_, _)
join(lines, i) ==
    IF i > Len(lines) THEN ""
    ELSE IF i = Len(lines) THEN lines[i]
    ELSE lines[i] \o "\n" \o join(lines, i + 1)

\* r with key k set to v (a dict assignment)
With(r, k, v) == [f \in DOMAIN r \cup {k} |-> IF f = k THEN v ELSE r[f]]

SeqSum(f(_), s) ==
    LET RECURSIVE go(_)
        go(i) == IF i > Len(s) THEN 0 ELSE f(s[i]) + go(i + 1)
    IN go(1)

\* Python's order on strings, for the ASCII characters used here
CodePoints ==
    " !\"#$%&'()*+,-./0123456789:;<=>?@ABCDEFGHIJKLMNOPQRSTUVWXYZ[\\]^_abcdefghijklmnopqrstuvwxyz{|}~"

RECURSIVE str_lt(_, _)
str_lt(a, b) ==
    IF Len(b) = 0 THEN FALSE
    ELSE IF Len(a) = 0 THEN TRUE
    ELSE IF Char(a, 1) = Char(b, 1)
         THEN str_lt(SubSeq(a, 2, Len(a)), SubSeq(b, 2, Len(b)))
         ELSE IndexIn(CodePoints, Char(a, 1)) < IndexIn(CodePoints, Char(b, 1))

\* sorted(s, key=...): stable, lt(a, b) is key(a) < key(b)
sorted(s, lt(_, _)) ==
    LET RECURSIVE go(_)
        go(t) ==
            IF Len(t) <= 1 THEN t
            ELSE LET rest == go(SubSeq(t, 1, Len(t) - 1))
                     x == t[Len(t)]
                     \* x goes after the last element that is not greater
                     keep == {i \in 1..Len(rest) : ~lt(x, rest[i])}
                     k == IF keep = {} THEN 0
                          ELSE CHOOSE i \in keep : \A j \in keep : j <= i
                 IN SubSeq(rest, 1, k) \o <<x>>
                        \o SubSeq(rest, k + 1, Len(rest))
    IN go(s)

-----------------------------------------------------------------------------
(* Dates: datetime values are <<year, month, day>>.                        *)

IsLeap(y) == (y % 4 = 0 /\ y % 100 # 0) \/ y % 400 = 0

DaysInMonth(y, m) ==
    IF m = 2 THEN (IF IsLeap(y) THEN 29 ELSE 28)
    ELSE IF m \in {4, 6, 9, 11} THEN 30 ELSE 31

NextDay(d) ==
    IF d[3] < DaysInMonth(d[1], d[2]) THEN <<d[1], d[2], d[3] + 1>>
    ELSE IF d[2] < 12 THEN <<d[1], d[2] + 1, 1>>
    ELSE <<d[1] + 1, 1, 1>>

RECURSIVE timedelta(_, _)
timedelta(d, days) == IF days = 0 THEN d ELSE timedelta(NextDay(d), days - 1)

_to_date(alma_date) ==
    <<int(Slice(alma_date, 6, 10)), int(Slice(alma_date, 0, 2)),
      int(Slice(alma_date, 3, 5))>>

_to_yymmdd(date) ==
    rjust(str_nat(date[1] % 100), 2, "0") \o rjust(str_nat(date[2]), 2, "0")
        \o rjust(str_nat(date[3]), 2, "0")

DueDays == 25

-----------------------------------------------------------------------------
(* Text and amount helpers of Invoice.                                     *)

\* Characters beyond Latin-1 cannot be written in a string literal; each is
\* carried by a Latin-1 character that the code treats like any other.
RSQUO == "´"    \* U+2019 right single quotation mark
ENDASH == "¬"   \* U+2013
EMDASH == "¯"   \* U+2014

norm_char(c) ==
    IF c \in {" ", "\n", "\r"} THEN ""
    ELSE IF c \in {"\t", "#", "&", "*", "_"} THEN " "
    ELSE IF c = RSQUO THEN "'"
    ELSE IF c \in {ENDASH, EMDASH} THEN "-"
    ELSE c

_get_value(text) == IF text = None THEN None ELSE MapChars(norm_char, text)

_get_blanks(num) == ljust(" ", num, " ")


\* _get_dollars rounding down
_get_dollars_down(amount) == amount \div 100

\* amount.quantize(Decimal('.01')) under the default context (ROUND_HALF_EVEN):
\* amount is counted in hundredths of a cent, the result in cents.
_get_dollars(amount) ==
    LET q == amount \div 100
        r == amount % 100
    IN IF r < 50 THEN q
       ELSE IF r > 50 THEN q + 1
       ELSE IF q % 2 = 0 THEN q ELSE q + 1

\* Decimal product of an amount in cents and a rate in hundredths
DecimalMul(cents, rate) == cents * rate

\* str(dollars).replace('.', '') for a quantized non-negative amount
str_dollars(cents) == str_nat(cents \div 100) \o rjust(str_nat(cents % 100), 2, "0")

_format_amount(amount) ==
    LET dollars == Abs(_get_dollars(amount * 100))
    IN rjust(str_dollars(dollars), 15, "0")

str(v) == IF v = None THEN "None" ELSE v

\* Decimal(text) returns a value for the plain decimal texts: an optional
\* minus sign and digits with at most one point and two fraction digits.
\* It raises TypeError for None and InvalidOperation for the empty text and
\* for a text with any other character.
IsDecimal(text) ==
    /\ text # None
    /\ LET body == IF startswith(text, "-") THEN Slice(text, 1, Len(text))
                   ELSE text
           points == {i \in 1..Len(body) : Char(body, i) = "."}
       IN /\ \A i \in 1..Len(body) : Char(body, i) \in DigitChars \cup {"."}
          /\ Cardinality(points) <= 1
          /\ Len(body) > Cardinality(points)
          /\ \A i \in points : Len(body) - i <= 2

\* the value of Decimal(text), in cents
Decimal(text) ==
    LET negative == startswith(text, "-")
        body == IF negative THEN Slice(text, 1, Len(text)) ELSE text
        points == {i \in 1..Len(body) : Char(body, i) = "."}
        point == IF points = {} THEN Len(body) + 1 ELSE CHOOSE i \in points : TRUE
        cents == 100 * int(Slice(body, 0, point - 1))
                     + int(ljust(Slice(body, point, Len(body)), 2, "0"))
    IN IF negative THEN 0 - cents ELSE cents

-----------------------------------------------------------------------------
(* Invoice Extractor.  An XML invoice is a record of its child texts (None *)
(* for an absent element); amounts are the Decimal values of the texts, in *)
(* cents.  A statement that raises ends __init__: pc becomes "raised" and  *)
(* no Invoice object exists.  mms_id, po_line_number, title and fund_name are extracted but   *)
(* never read again and are left out.                                      *)

_get_fund(xml_fund) ==
    [usd_amount |-> Decimal(_get_value(xml_fund.sum)),
     fau        |-> _get_value(xml_fund.external_id),
     fund_code  |-> _get_value(xml_fund.code)]

fund_code_lt(a, b) == str_lt(a.fund_code, b.fund_code)

\* _get_funds without the sort: the funds in document order
_get_funds_unsorted(xml_line) ==
    [i \in 1..Len(xml_line.fund_info_list) |->
        _get_fund(xml_line.fund_info_list[i])]

_get_funds(xml_line) ==
    sorted([i \in 1..Len(xml_line.fund_info_list) |->
                _get_fund(xml_line.fund_info_list[i])], fund_code_lt)

_get_invoice_line(xml_line) ==
    [total_price    |-> Decimal(_get_value(xml_line.total_price)),
     line_type      |-> _get_value(xml_line.line_type),
     line_number    |-> _get_value(xml_line.line_number),
     note           |-> _get_value(xml_line.note),
     reporting_code |-> _get_value(xml_line.reporting_code),
     fund_info      |-> _get_funds(xml_line)]


\* line_number_lt on the line numbers as strings
line_number_lt_str(a, b) == str_lt(a.line_number, b.line_number)

line_number_lt(a, b) == int(a.line_number) < int(b.line_number)

_get_invoice_lines(xml_lines) ==
    sorted([i \in 1..Len(xml_lines) |-> _get_invoice_line(xml_lines[i])],
           line_number_lt)

\* some Decimal(...) of _get_invoice_data, _get_invoice_line or _get_fund
\* raises on this element
decimal_raises(x) ==
    \/ ~IsDecimal(_get_value(x.sum))
    \/ \E i \in 1..Len(x.invoice_line_list) :
           LET xml_line == x.invoice_line_list[i]
           IN \/ ~IsDecimal(_get_value(xml_line.total_price))
              \/ \E j \in 1..Len(xml_line.fund_info_list) :
                     ~IsDecimal(_get_value(xml_line.fund_info_list[j].sum))

_get_invoice_data ==
    /\ pc = "new"
    /\ IF decimal_raises(xml)
       THEN /\ pc' = "raised"
            /\ UNCHANGED <<hdr, invoice_lines>>
       ELSE /\ hdr' = [currency          |-> _get_value(xml.currency),
                       invoice_date      |->
                           _to_date(_get_value(xml.invoice_date)),
                       invoice_number    |-> _get_value(xml.invoice_number),
                       total_amount_alma |-> Decimal(_get_value(xml.sum)),
                       unique_identifier |->
                           _get_value(xml.unique_identifier),
                       vck               |->
                           _get_value(xml.vendor_FinancialSys_Code),
                       vendor_code       |-> _get_value(xml.vendor_code)]
            /\ invoice_lines' = _get_invoice_lines(xml.invoice_line_list)
            /\ pc' = "extracted"
    /\ UNCHANGED <<xml, pac, totals, pac_invoice_type, pac_lines, valid,
                   validation_message, pac_format>>
    /\ UNCHANGED env_vars

nonzero(line) == line.total_price # 0

_remove_unwanted_lines ==
    /\ pc = "extracted"
    /\ invoice_lines' = SelectSeq(invoice_lines, nonzero)
    /\ pc' = "filtered"
    /\ UNCHANGED <<xml, hdr, pac, totals, pac_invoice_type, pac_lines, valid,
                   validation_message, pac_format>>
    /\ UNCHANGED env_vars

-----------------------------------------------------------------------------
(* Line Enricher.                                                          *)

_format_invoice_number ==
    IF hdr.invoice_number # None
    THEN ljust(Slice(hdr.invoice_number, 0, 23), 23, " ")
    ELSE None

_format_vck == IF hdr.vck # None THEN Slice(hdr.vck, 0, 9) ELSE "NO VCK   "

_get_due_date == timedelta(hdr.invoice_date, DueDays)

_get_lbs_tax_code(inv_line) == inv_line.reporting_code

SpecialTaxCodes == {"TA", "TB", "TC", "TD", "TE", "TF", "TG", "TH", "TI"}


\* _get_line_code with the shipping test before the test of the sign
_get_line_code_esh_first(inv_line) ==
    LET lbs_tax_code == inv_line.lbs_tax_code
        line_type == inv_line.line_type
        amount == inv_line.total_price
        line_code ==
            IF line_type = "SHIPMENT" /\ Slice(lbs_tax_code, 2, 5) = "-SH"
                 THEN "ESH"
            ELSE IF amount < 0 THEN "CR"
            ELSE IF Slice(lbs_tax_code, 2, 5) = "-FT" THEN "FT"
            ELSE IF lbs_tax_code = "EX-PR" THEN "SVS"
            ELSE IF Slice(lbs_tax_code, 2, 5) = "-PR" /\ lbs_tax_code # "EX-PR"
                 THEN "MAT"
            ELSE IF lbs_tax_code \in SpecialTaxCodes THEN "CR"
            ELSE "DR"
    IN ljust(line_code, 3, " ")

_get_line_code(inv_line) ==
    LET lbs_tax_code == inv_line.lbs_tax_code
        line_type == inv_line.line_type
        amount == inv_line.total_price
        line_code ==
            IF amount < 0 THEN "CR"
            ELSE IF line_type = "SHIPMENT" /\ Slice(lbs_tax_code, 2, 5) = "-SH"
                 THEN "ESH"
            ELSE IF Slice(lbs_tax_code, 2, 5) = "-FT" THEN "FT"
            ELSE IF lbs_tax_code = "EX-PR" THEN "SVS"
            ELSE IF Slice(lbs_tax_code, 2, 5) = "-PR" /\ lbs_tax_code # "EX-PR"
                 THEN "MAT"
            ELSE IF lbs_tax_code \in SpecialTaxCodes THEN "CR"
            ELSE "DR"
    IN ljust(line_code, 3, " ")

_get_pac_tax_code(inv_line) ==
    LET lbs_tax_code == inv_line.lbs_tax_code
        line_code == inv_line.line_code
    IN IF Slice(lbs_tax_code, 0, 2) = "EX" \/ line_code = "FT" THEN "E "
       ELSE IF Slice(lbs_tax_code, 0, 2) = "VR" THEN "TM"
       ELSE IF line_code = "ESH" THEN "E "
       ELSE IF line_code = "TSH" THEN "SM"
       ELSE IF line_code = "CR " THEN "E "
       ELSE "SM"

_get_description(inv_line) ==
    LET description == hdr.unique_identifier \o " : " \o inv_line.line_number
                           \o " : " \o str(inv_line.note)
    IN ljust(Slice(description, 0, 55), 55, " ")

_get_pac_fau(fau) ==
    LET loc == Slice(fau, 0, 1)
        account == Slice(fau, 2, 8)
        cc == Slice(fau, 9, 11)
        fund == Slice(fau, 12, 17)
        sub == Slice(fau, 18, 20)
        obj == Slice(fau, 21, 25)
        project == ljust(Slice(fau, 26, 32), 6, " ")
        source == Slice(hdr.unique_identifier, 3, 9)
    IN loc \o account \o cc \o fund \o project \o sub \o obj \o source


\* _is_discount_line without the test of the sign
_is_discount_line_any(inv_line) == inv_line.line_type = "DISCOUNT"

_is_discount_line(inv_line) ==
    inv_line.line_type = "DISCOUNT" /\ inv_line.total_price > 0

\* the dict of one line after _add_line_data, its keys set in code order
_add_line_data(inv_line) ==
    LET l1 == IF _is_discount_line(inv_line)
              THEN With(inv_line, "total_price", 0 - inv_line.total_price)
              ELSE inv_line
        l2 == With(l1, "lbs_tax_code", _get_lbs_tax_code(l1))
        l3 == With(l2, "line_code", _get_line_code(l2))
        l4 == With(l3, "pac_tax_code", _get_pac_tax_code(l3))
        l5 == With(l4, "description", _get_description(l4))
        l6 == With(l5, "fund_count", Len(l5.fund_info))
    IN With(l6, "fund_info",
            [i \in 1..Len(l6.fund_info) |->
                With(l6.fund_info[i], "pac_fau",
                     _get_pac_fau(l6.fund_info[i].fau))])

\* _add_other_data up to the end of its loop over the lines
_add_line_data_all ==
    /\ pc = "filtered"
    /\ pac' = [pac_invoice_number |-> _format_invoice_number,
               pac_vck            |-> _format_vck,
               pac_due_date       |-> _get_due_date]
    /\ invoice_lines' = [i \in 1..Len(invoice_lines) |->
                            _add_line_data(invoice_lines[i])]
    /\ pc' = "enriched"
    /\ UNCHANGED <<xml, hdr, totals, pac_invoice_type, pac_lines, valid,
                   validation_message, pac_format>>
    /\ UNCHANGED env_vars

esh_rate == 80
tsh_rate == 20

\* _split_esh_line_esh with the fund amounts taken at the ESH rate, too
_split_esh_line_esh_funds(esh_line) ==
    LET original_price == esh_line.total_price
        e1 == With(esh_line, "original_price", original_price)
        e2 == With(e1, "total_price",
                   _get_dollars(DecimalMul(original_price, esh_rate)))
        e3 == With(e2, "line_number", e2.line_number \o "-ESH")
    IN With(e3, "fund_info",
            [j \in 1..Len(e3.fund_info) |->
                With(e3.fund_info[j], "usd_amount",
                     _get_dollars(DecimalMul(e3.fund_info[j].usd_amount,
                                             esh_rate)))])

\* the ESH line as _split_esh_line leaves it
_split_esh_line_esh(esh_line) ==
    LET original_price == esh_line.total_price
        e1 == With(esh_line, "original_price", original_price)
        e2 == With(e1, "total_price",
                   _get_dollars(DecimalMul(original_price, esh_rate)))
    IN With(e2, "line_number", e2.line_number \o "-ESH")


\* _split_esh_line with the TSH amount taken at the ESH rate
_split_esh_line_rate(esh_line) ==
    LET original_price == esh_line.total_price
        t1 == With(esh_line, "original_price", original_price)
        t2 == With(t1, "total_price",
                   _get_dollars(DecimalMul(original_price, esh_rate)))
        t3 == With(t2, "line_code", "TSH")
        t4 == With(t3, "line_number", t3.line_number \o "-TSH")
    IN With(t4, "pac_tax_code", _get_pac_tax_code(t4))

\* the TSH line that _split_esh_line returns
_split_esh_line(esh_line) ==
    LET original_price == esh_line.total_price
        t1 == With(esh_line, "original_price", original_price)
        t2 == With(t1, "total_price",
                   _get_dollars(DecimalMul(original_price, tsh_rate)))
        t3 == With(t2, "line_code", "TSH")
        t4 == With(t3, "line_number", t3.line_number \o "-TSH")
    IN With(t4, "pac_tax_code", _get_pac_tax_code(t4))

is_esh(line) == line.line_code = "ESH"

_make_tsh_lines ==
    /\ pc = "enriched"
    /\ LET tmp_tsh_lines ==
               LET esh == SelectSeq(invoice_lines, is_esh)
               IN [i \in 1..Len(esh) |-> _split_esh_line(esh[i])]
           split_lines ==
               [i \in 1..Len(invoice_lines) |->
                   IF is_esh(invoice_lines[i])
                   THEN _split_esh_line_esh(invoice_lines[i])
                   ELSE invoice_lines[i]]
       IN invoice_lines' = split_lines \o tmp_tsh_lines
    /\ pc' = "split"
    /\ UNCHANGED <<xml, hdr, pac, totals, pac_invoice_type, pac_lines, valid,
                   validation_message, pac_format>>
    /\ UNCHANGED env_vars

-----------------------------------------------------------------------------
(* Totals Aggregator.                                                      *)

\* _calculate_totals_line with the TM/TS test before the credit test
_calculate_totals_line_state_first(t, inv_line) ==
    LET line_amount == inv_line.total_price
        pac_tax_code == inv_line.pac_tax_code
        lbs_tax_code == inv_line.lbs_tax_code
        line_code == inv_line.line_code
    IN IF inv_line.line_type = "BA"
       THEN IF Slice(lbs_tax_code, 0, 2) \in {"VR"}
            THEN [t EXCEPT !.total_vendor_tax = @ + line_amount]
            ELSE IF Slice(lbs_tax_code, 0, 2) \in {"TM", "TS"}
            THEN [t EXCEPT !.total_state_tax = @ + line_amount]
            ELSE IF line_code = "CR " /\ Slice(lbs_tax_code, 0, 1) = "T"
            THEN [t EXCEPT !.total_vendor_tax = @ + line_amount,
                           !.total_non_taxable = @ - line_amount]
            ELSE [t EXCEPT !.total_non_taxable = @ + line_amount]
       ELSE IF pac_tax_code = "SM"
            THEN [t EXCEPT !.total_state_taxable = @ + line_amount]
            ELSE IF pac_tax_code = "TM"
            THEN [t EXCEPT !.total_vendor_taxable = @ + line_amount]
            ELSE [t EXCEPT !.total_non_taxable = @ + line_amount]

\* one pass of the loop of _calculate_totals: the buckets t after inv_line
_calculate_totals_line(t, inv_line) ==
    LET line_amount == inv_line.total_price
        pac_tax_code == inv_line.pac_tax_code
        lbs_tax_code == inv_line.lbs_tax_code
        line_code == inv_line.line_code
    IN IF inv_line.line_type = "BA"
       THEN IF Slice(lbs_tax_code, 0, 2) \in {"VR"}
            THEN [t EXCEPT !.total_vendor_tax = @ + line_amount]
            ELSE IF line_code = "CR " /\ Slice(lbs_tax_code, 0, 1) = "T"
            THEN [t EXCEPT !.total_vendor_tax = @ + line_amount,
                           !.total_non_taxable = @ - line_amount]
            ELSE IF Slice(lbs_tax_code, 0, 2) \in {"TM", "TS"}
            THEN [t EXCEPT !.total_state_tax = @ + line_amount]
            ELSE [t EXCEPT !.total_non_taxable = @ + line_amount]
       ELSE IF pac_tax_code = "SM"
            THEN [t EXCEPT !.total_state_taxable = @ + line_amount]
            ELSE IF pac_tax_code = "TM"
            THEN [t EXCEPT !.total_vendor_taxable = @ + line_amount]
            ELSE [t EXCEPT !.total_non_taxable = @ + line_amount]

_calculate_discount_total == 0

_calculate_totals_data ==
    LET zero == [total_state_taxable |-> 0, total_vendor_taxable |-> 0,
                 total_non_taxable |-> 0, total_state_tax |-> 0,
                 total_vendor_tax |-> 0]
        RECURSIVE loop(_, _)
        loop(t, i) ==
            IF i > Len(invoice_lines) THEN t
            ELSE loop(_calculate_totals_line(t, invoice_lines[i]), i + 1)
        t == loop(zero, 1)
    IN [total_state_taxable  |-> t.total_state_taxable,
        total_vendor_taxable |-> t.total_vendor_taxable,
        total_non_taxable    |-> t.total_non_taxable,
        total_state_tax      |-> t.total_state_tax,
        total_vendor_tax     |-> t.total_vendor_tax,
        total_discount       |-> _calculate_discount_total,
        total_amount_pac     |-> t.total_state_taxable + t.total_vendor_taxable
                                     + t.total_non_taxable + t.total_vendor_tax]

\* _get_invoice_type with the test "total_amount_pac > 0"
_get_invoice_type_strict(t) == IF t.total_amount_pac > 0 THEN "D" ELSE "C"

_get_invoice_type(t) == IF t.total_amount_pac >= 0 THEN "D" ELSE "C"

\* _calculate_totals, then the assignment of pac_invoice_type
_calculate_totals ==
    /\ pc = "split"
    /\ totals' = _calculate_totals_data
    /\ pac_invoice_type' = _get_invoice_type(totals')
    /\ pc' = "totaled"
    /\ UNCHANGED <<xml, hdr, invoice_lines, pac, pac_lines, valid,
                   validation_message, pac_format>>
    /\ UNCHANGED env_vars

fau_accounts(lbs_tax_code) ==
    CASE lbs_tax_code = "TA" -> "115523"
      [] lbs_tax_code = "TB" -> "115522"
      [] lbs_tax_code = "TC" -> "115524"
      [] lbs_tax_code = "TD" -> "115521"
      [] lbs_tax_code = "TE" -> "115529"
      [] lbs_tax_code = "TF" -> "115528"
      [] lbs_tax_code = "TG" -> "115518"
      [] lbs_tax_code = "TH" -> "115519"
      [] lbs_tax_code = "TI" -> "115525"
      [] OTHER -> "115528"

\* _get_special_tax_fau with the account put in front of the account string
\* that the first fund of the line has
_get_special_tax_fau_insert(inv_line) ==
    "4 " \o fau_accounts(inv_line.lbs_tax_code) \o " "
        \o Slice(inv_line.fund_info[1].fau, 2, 25)

_get_special_tax_fau(inv_line) ==
    "4 " \o fau_accounts(inv_line.lbs_tax_code) \o "    18888        "

\* is_credit_tax_line without the test of the line type
is_credit_tax_line_any(l) == l.line_code = "CR "

is_credit_tax_line(l) == l.line_code = "CR " /\ l.line_type = "BA"

_update_credit_fau(inv_line) ==
    LET special_fau == _get_special_tax_fau(inv_line)
        f1 == With(inv_line.fund_info[1], "fau", special_fau)
        f2 == With(f1, "pac_fau", _get_pac_fau(special_fau))
    IN With(inv_line, "fund_info",
            [i \in 1..Len(inv_line.fund_info) |->
                IF i = 1 THEN f2 ELSE inv_line.fund_info[i]])

\* the lines after the loop of _update_credit_faus, every fund list non-empty
_update_credit_faus_loop(lines) ==
    [i \in 1..Len(lines) |->
        IF pac_invoice_type = "D" /\ is_credit_tax_line(lines[i])
        THEN _update_credit_fau(lines[i])
        ELSE lines[i]]

_update_credit_faus ==
    /\ pc = "totaled"
    /\ IF pac_invoice_type = "D"
          /\ \E i \in 1..Len(invoice_lines) :
                 is_credit_tax_line(invoice_lines[i])
                     /\ Len(invoice_lines[i].fund_info) = 0
       THEN \* fund_info[0] raises IndexError: __init__ does not return
            /\ pc' = "raised"
            /\ UNCHANGED invoice_lines
       ELSE /\ pc' = "updated"
            /\ invoice_lines' = _update_credit_faus_loop(invoice_lines)
    /\ UNCHANGED <<xml, hdr, pac, totals, pac_invoice_type, pac_lines, valid,
                   validation_message, pac_format>>
    /\ UNCHANGED env_vars

-----------------------------------------------------------------------------
(* Card Emitter.                                                           *)

\* _needs_z21_line_item with only TM and TS in the list of codes
_needs_z21_line_item_no_vr(inv_line) ==
    ~(inv_line.line_type = "BA"
        /\ Slice(inv_line.lbs_tax_code, 0, 2) \in {"TM", "TS"})

_needs_z21_line_item(inv_line) ==
    ~(inv_line.line_type = "BA"
        /\ Slice(inv_line.lbs_tax_code, 0, 2) \in {"TM", "TS", "VR"})

batch_number == "999895"

_get_z20_line1 ==
    "Z200101 A" \o pac.pac_vck \o " " \o pac.pac_invoice_number
        \o _to_yymmdd(hdr.invoice_date) \o "99" \o batch_number
        \o _get_blanks(24)

_get_z20_line2 ==
    "Z200102 " \o _format_amount(totals.total_amount_pac) \o pac_invoice_type
        \o _format_amount(totals.total_vendor_tax) \o "99"
        \o _format_amount(totals.total_discount)
        \o _to_yymmdd(pac.pac_due_date) \o _get_blanks(18)

_get_z20_line3 == "Z200103    00    UCLANONE        CA" \o _get_blanks(45)

_get_z20_lines == <<_get_z20_line1, _get_z20_line2, _get_z20_line3>>

_get_z21_line1(inv_line) ==
    "Z210101 A" \o pac.pac_vck \o " " \o pac.pac_invoice_number
        \o rjust(str_nat(inv_line.pac_line_number), 4, "0")
        \o inv_line.line_code \o _get_blanks(31)

_get_z21_line2(inv_line) ==
    "Z210102 " \o _format_amount(inv_line.total_price) \o inv_line.description
        \o inv_line.pac_tax_code

_get_z21_line3(inv_line) ==
    IF inv_line.fund_count = 1
    THEN "Z210103 " \o inv_line.fund_info[1].pac_fau \o _get_blanks(26)
             \o "E" \o _get_blanks(4) \o inv_line.line_code \o _get_blanks(6)
    ELSE "Z210103 " \o _get_blanks(32) \o _get_blanks(26)
             \o "E" \o _get_blanks(4) \o inv_line.line_code \o _get_blanks(6)

\* _get_z41_lines with a card for every fund but the first
_get_z41_lines_additional(inv_line) ==
    LET RECURSIVE cards(_)
        cards(i) ==
            IF i > Len(inv_line.fund_info) THEN <<>>
            ELSE LET fund_info == inv_line.fund_info[i]
                     z41_line1 ==
                         "Z410101 A" \o pac.pac_vck \o " "
                             \o pac.pac_invoice_number \o _get_blanks(30)
                             \o rjust(str_nat(inv_line.pac_line_number), 4, "0")
                             \o _get_blanks(4)
                     z41_line2 ==
                         "Z410102 " \o _get_blanks(23)
                             \o _format_amount(fund_info.usd_amount)
                             \o _get_blanks(34)
                     z41_line3 ==
                         "Z410103 " \o fund_info.pac_fau \o _get_blanks(40)
                 IN <<z41_line1, z41_line2, z41_line3>> \o cards(i + 1)
    IN cards(2)

_get_z41_lines(inv_line) ==
    LET RECURSIVE cards(_)
        cards(i) ==
            IF i > Len(inv_line.fund_info) THEN <<>>
            ELSE LET fund_info == inv_line.fund_info[i]
                     z41_line1 ==
                         "Z410101 A" \o pac.pac_vck \o " "
                             \o pac.pac_invoice_number \o _get_blanks(30)
                             \o rjust(str_nat(inv_line.pac_line_number), 4, "0")
                             \o _get_blanks(4)
                     z41_line2 ==
                         "Z410102 " \o _get_blanks(23)
                             \o _format_amount(fund_info.usd_amount)
                             \o _get_blanks(34)
                     z41_line3 ==
                         "Z410103 " \o fund_info.pac_fau \o _get_blanks(40)
                 IN <<z41_line1, z41_line2, z41_line3>> \o cards(i + 1)
    IN cards(1)

\* _number_z21_lines with the counter taken from the position in the list
_number_z21_lines_all ==
    [i \in 1..Len(invoice_lines) |->
        IF _needs_z21_line_item(invoice_lines[i])
        THEN With(invoice_lines[i], "pac_line_number", i)
        ELSE invoice_lines[i]]

\* invoice_lines after _get_z21_lines: each carded line has its counter
_number_z21_lines ==
    [i \in 1..Len(invoice_lines) |->
        IF _needs_z21_line_item(invoice_lines[i])
        THEN With(invoice_lines[i], "pac_line_number",
                  Cardinality({j \in 1..i :
                                   _needs_z21_line_item(invoice_lines[j])}))
        ELSE invoice_lines[i]]

_get_z21_lines ==
    LET numbered == _number_z21_lines
        RECURSIVE cards(_)
        cards(i) ==
            IF i > Len(numbered) THEN <<>>
            ELSE LET inv_line == numbered[i]
                 IN (IF _needs_z21_line_item(inv_line)
                     THEN <<_get_z21_line1(inv_line), _get_z21_line2(inv_line),
                            _get_z21_line3(inv_line)>>
                              \o (IF inv_line.fund_count > 1
                                  THEN _get_z41_lines(inv_line) ELSE <<>>)
                     ELSE <<>>) \o cards(i + 1)
    IN cards(1)

_get_z25_lines ==
    <<"Z250101 A" \o pac.pac_vck \o " " \o pac.pac_invoice_number
          \o _get_blanks(6) \o "Y" \o _get_blanks(31)>>

_get_pac_lines ==
    /\ pc = "updated"
    /\ IF pac.pac_invoice_number = None
       THEN \* _get_z20_line1 adds None to a str and raises TypeError
            /\ pc' = "raised"
            /\ UNCHANGED <<pac_lines, invoice_lines>>
       ELSE /\ pac_lines' =
                   _get_z20_lines \o _get_z21_lines \o _get_z25_lines
            /\ invoice_lines' = _number_z21_lines
            /\ pc' = "built"
    /\ UNCHANGED <<xml, hdr, pac, totals, pac_invoice_type, valid,
                   validation_message, pac_format>>
    /\ UNCHANGED env_vars

-----------------------------------------------------------------------------
(* Validator and final format.                                             *)

unwanted_prefixes ==
    <<"ADJUST", "BINDERY", "FOREIGN", "HOLD", "PACKAGE", "RECHARGE", "REFUND",
      "REIMBURSE", "RUSH", "SPECIAL", "UCLARCHG", "WIRE">>


\* procard_regex with four digits after the 5
procard_regex_four(invoice_number) ==
    /\ Len(invoice_number) >= 9
    /\ Char(invoice_number, 1) = "5"
    /\ \A i \in 2..5 : isdigit(Char(invoice_number, i))
    /\ \A i \in 6..8 : isupperletter(Char(invoice_number, i))
    /\ isdigit(Char(invoice_number, 9))

\* re.search('^5[0-9]{3}[A-Z]{3}[0-9]', invoice_number)
procard_regex(invoice_number) ==
    /\ Len(invoice_number) >= 8
    /\ Char(invoice_number, 1) = "5"
    /\ \A i \in 2..4 : isdigit(Char(invoice_number, i))
    /\ \A i \in 5..7 : isupperletter(Char(invoice_number, i))
    /\ isdigit(Char(invoice_number, 8))

\* the pair (valid, validation_message) after the vendor and VCK tests
is_valid_vendor ==
    IF hdr.vendor_code = "LBS"
    THEN [valid |-> FALSE, validation_message |-> "LBS Invoice"]
    ELSE IF hdr.vck = None
    THEN [valid |-> FALSE, validation_message |-> "No VCK"]
    ELSE [valid |-> TRUE, validation_message |-> "OK"]


\* is_valid_prefix as an elif of the vendor and VCK tests
is_valid_prefix_elif(v) ==
    LET matching == {i \in 1..Len(unwanted_prefixes) :
                        startswith(hdr.invoice_number, unwanted_prefixes[i])}
    IN IF matching = {} \/ ~v.valid THEN v
       ELSE LET first == CHOOSE i \in matching : \A j \in matching : i <= j
            IN [valid |-> FALSE,
                validation_message |->
                    "Unwanted prefix: " \o unwanted_prefixes[first]]

\* ... after the loop over the prefixes, which stops at the first match
is_valid_prefix(v) ==
    LET matching == {i \in 1..Len(unwanted_prefixes) :
                        startswith(hdr.invoice_number, unwanted_prefixes[i])}
    IN IF matching = {} THEN v
       ELSE LET first == CHOOSE i \in matching : \A j \in matching : i <= j
            IN [valid |-> FALSE,
                validation_message |->
                    "Unwanted prefix: " \o unwanted_prefixes[first]]


\* is_valid_procard as an elif of the tests before it
is_valid_procard_elif(v) ==
    IF v.valid /\ procard_regex(hdr.invoice_number)
    THEN [valid |-> FALSE, validation_message |-> "Unwanted Procard"]
    ELSE v

\* ... after the Procard test
is_valid_procard(v) ==
    IF procard_regex(hdr.invoice_number)
    THEN [valid |-> FALSE, validation_message |-> "Unwanted Procard"]
    ELSE v


\* is_valid_line with the length test "len(line) > 80"
is_valid_line_longer(v, line) ==
    LET v1 == IF Len(line) > 80
              THEN [valid |-> FALSE,
                    validation_message |-> "Bad length: " \o line]
              ELSE v
    IN IF ~isascii(line)
       THEN [valid |-> FALSE, validation_message |-> "Not ASCII: " \o line]
       ELSE v1

\* is_valid_line with "valid = (len(line) == 80 and line.isascii())"
is_valid_line_reset(v, line) ==
    IF Len(line) # 80
    THEN [valid |-> isascii(line),
          validation_message |-> "Bad length: " \o line]
    ELSE IF ~isascii(line)
    THEN [valid |-> FALSE, validation_message |-> "Not ASCII: " \o line]
    ELSE [valid |-> TRUE, validation_message |-> v.validation_message]

\* ... after the two tests on one rendered line
is_valid_line(v, line) ==
    LET v1 == IF Len(line) # 80
              THEN [valid |-> FALSE,
                    validation_message |-> "Bad length: " \o line]
              ELSE v
    IN IF ~isascii(line)
       THEN [valid |-> FALSE, validation_message |-> "Not ASCII: " \o line]
       ELSE v1

is_valid_lines(v) ==
    LET RECURSIVE loop(_, _)
        loop(w, i) ==
            IF i > Len(pac_lines) THEN w
            ELSE loop(is_valid_line(w, pac_lines[i]), i + 1)
    IN loop(v, 1)

is_valid ==
    /\ pc = "built"
    /\ LET v == is_valid_lines(is_valid_procard(is_valid_prefix(is_valid_vendor)))
       IN /\ valid' = v.valid
          /\ validation_message' =
                 hdr.invoice_number \o " : " \o v.validation_message
    /\ pc' = "validated"
    /\ UNCHANGED <<xml, hdr, invoice_lines, pac, totals, pac_invoice_type,
                   pac_lines, pac_format>>
    /\ UNCHANGED env_vars

get_pac_format ==
    /\ pc = "validated"
    /\ pac_format' = upper(join(pac_lines, 1) \o "\n")
    /\ pc' = "formatted"
    /\ UNCHANGED <<xml, hdr, invoice_lines, pac, totals, pac_invoice_type,
                   pac_lines, valid, validation_message>>
    /\ UNCHANGED env_vars

-----------------------------------------------------------------------------
(* The invoices checked.                                                   *)

FullFau == "4 431234 LB 19900 00 7210 ABCDEF"
PlainFau == "4 431234 LB 19900 00 7210"
ShortFau == "4 431234 LB 19900"

\* the text of an amount of cents, as Alma writes it
amount_text(cents) ==
    (IF cents < 0 THEN "-" ELSE "") \o str_nat(Abs(cents) \div 100) \o "."
        \o rjust(str_nat(Abs(cents) % 100), 2, "0")

XmlFund(code, fau, amount) ==
    [sum |-> amount_text(amount), external_id |-> fau, code |-> code]

XmlLine(type, code, amount, note, funds) ==
    [total_price |-> amount_text(amount), line_type |-> type,
     line_number |-> "1",
     note |-> note, reporting_code |-> code, fund_info_list |-> funds]

XmlInvoice(number, vendor, vck, lines) ==
    [invoice_number |-> number, invoice_date |-> "12/20/2023",
     vendor_code |-> vendor, vendor_FinancialSys_Code |-> vck,
     unique_identifier |-> "PAC0012345", currency |-> "USD",
     sum |-> amount_text(SeqSum(LAMBDA l : Decimal(l.total_price), lines)),
     invoice_line_list |-> lines]

InvoiceNumbers ==
    {"INV0001", "ADJUST0001", "50012ABC3", "5001ABC3", "RUSH 5",
     "adjust0001", "Rush 5", "5001abc3"}
VendorCodes == {"LBS", "YBP"}
Vcks == {None, "ABC1234567", "ABC12"}

OneFund(amount) == <<XmlFund("LIB01", PlainFau, amount)>>

\* line lists that make the rendered lines good, too short, or not ASCII
HeaderLineLists ==
    {<<XmlLine("REGULAR", "SM-PR", 500, "PO#12", OneFund(500))>>,
     <<XmlLine("REGULAR", "SM-PR", 500, "Café", OneFund(500))>>,
     <<XmlLine("REGULAR", "SM-PR", 500, None,
               <<XmlFund("LIB01", ShortFau, 500)>>)>>,
     <<XmlLine("REGULAR", "SM-PR", 500, None,
               <<XmlFund("LIB02", FullFau, 300),
                 XmlFund("LIB01", PlainFau, 200)>>)>>}

Amounts == {-1, 0} \cup (1..MaxAmt)

LineInputs ==
    {XmlLine("REGULAR", "SM-PR", a, None, OneFund(a)) : a \in Amounts}
      \cup {XmlLine("SHIPMENT", "EX-SH", a, None, OneFund(a)) :
               a \in Amounts \ {-1}}
      \cup {XmlLine("DISCOUNT", "SM-PR", a, None, OneFund(a)) : a \in {-1, 2}}
      \cup {XmlLine("BA", "TM", 1, None, OneFund(1)),
            XmlLine("BA", "TA", 1, None, OneFund(1)),
            XmlLine("BA", "TA", 1, None, <<>>)}

AscendingNumbers == <<"1", "2", "3", "4">>
DescendingNumbers == <<"10", "3", "2", "1">>

\* the document orders of n line numbers
LineNumberings(n) == {SubSeq(AscendingNumbers, 1, n),
                      SubSeq(DescendingNumbers, 1, n)}

LineLists ==
    UNION {{[i \in 1..n |-> With(ls[i], "line_number", nums[i])] :
               ls \in [1..n -> LineInputs], nums \in LineNumberings(n)} :
           n \in 0..MaxLines}

ShippingLists ==
    {<<With(XmlLine("SHIPMENT", "EX-SH", a, None, OneFund(a)),
            "line_number", "1"),
       With(XmlLine("REGULAR", "SM-PR", 500, None, OneFund(500)),
            "line_number", "2")>> : a \in 1..MaxShip}

\* a shipping line paid from two funds, after a line of its own
SharedShippingLists ==
    {<<With(XmlLine("REGULAR", "SM-PR", 500, None, OneFund(500)),
            "line_number", "1"),
       With(XmlLine("SHIPMENT", c, 2500, "S&H",
                    <<XmlFund("LIB02", FullFau, 1500),
                      XmlFund("LIB01", PlainFau, 1000)>>),
            "line_number", "2")>> : c \in {"EX-SH", "SM-SH"}}

\* one line of every line type and reporting code that the rules of
\* _get_line_code, _get_pac_tax_code and _calculate_totals tell apart, as a
\* charge and as a credit, with no, one or two funds
CodeLineTypes == {"REGULAR", "SHIPMENT", "BA"}
ReportingCodes ==
    {"SM-PR", "EX-PR", "VR-PR", "EX-SH", "SM-SH", "VR-SH", "SM-FT", "EX-FT",
     "TA", "TF", "TI", "TX", "TM", "TS", "VR", "SM", ""}

TwoFunds(amount) ==
    <<XmlFund("LIB02", FullFau, 2 * amount),
      XmlFund("LIB01", PlainFau, 0 - amount)>>

CodeLines ==
    {XmlLine(t, c, a, None, f) :
        t \in CodeLineTypes, c \in ReportingCodes,
        a \in {-1, 1}, f \in {<<>>, OneFund(1), TwoFunds(1)}}

\* ... alone, on a debit invoice, or with a credit that makes a credit invoice
CodeLists ==
    {<<With(l, "line_number", "7")>> : l \in CodeLines}
      \cup {<<With(l, "line_number", "7"),
              With(XmlLine("REGULAR", "SM-PR", -5, None, f),
                   "line_number", "9")>> :
               l \in CodeLines, f \in {OneFund(-5), TwoFunds(-5)}}

\* texts that are no amount: an absent element, an empty one, words
BadAmountTexts == {None, "", "abc", "5,00"}

GoodInvoice ==
    XmlInvoice("INV0001", "YBP", "ABC1234567",
               <<XmlLine("REGULAR", "SM-PR", 500, "PO#12", OneFund(500))>>)

\* GoodInvoice with one element absent or, for an amount, not a number
RequiredFieldInvoices ==
    LET xml_line == GoodInvoice.invoice_line_list[1]
        xml_fund == xml_line.fund_info_list[1]
    IN {With(GoodInvoice, "invoice_number", None),
        With(GoodInvoice, "currency", None)}
         \cup {With(GoodInvoice, "sum", t) : t \in BadAmountTexts}
         \cup {With(GoodInvoice, "invoice_line_list",
                    <<With(xml_line, "total_price", t)>>) :
                  t \in BadAmountTexts}
         \cup {With(GoodInvoice, "invoice_line_list",
                    <<With(xml_line, "fund_info_list",
                           <<With(xml_fund, "sum", t)>>)>>) :
                  t \in BadAmountTexts}

Invoices ==
    {XmlInvoice(n, v, k, ls) :
        n \in InvoiceNumbers, v \in VendorCodes, k \in Vcks,
        ls \in HeaderLineLists}
      \cup {XmlInvoice("INV0001", "YBP", "ABC1234567", ls) :
               ls \in LineLists \cup ShippingLists \cup SharedShippingLists
                         \cup CodeLists}
      \cup RequiredFieldInvoices

Init ==
    /\ xml \in Invoices
    /\ pc = "new"
    /\ hdr = None
    /\ invoice_lines = <<>>
    /\ pac = None
    /\ totals = None
    /\ pac_invoice_type = None
    /\ pac_lines = <<>>
    /\ valid = None
    /\ validation_message = None
    /\ pac_format = None
    /\ script = None
    /\ argv = None
    /\ args = None
    /\ production_mode = None
    /\ root = <<>>
    /\ position = 0
    /\ pac_file = None
    /\ printed = <<>>
    /\ uploaded = <<>>
    /\ driver_pc = None
    /\ marc_record = <<>>
    /\ report_item = None
    /\ field_966 = <<>>
    /\ called = None
    /\ needs_update = None
    /\ total_bibs_updated = 0
    /\ total_bibs_skipped = 0

Next ==
    \/ _get_invoice_data
    \/ _remove_unwanted_lines
    \/ _add_line_data_all
    \/ _make_tsh_lines
    \/ _calculate_totals
    \/ _update_credit_faus
    \/ _get_pac_lines
    \/ is_valid
    \/ get_pac_format

Spec == Init /\ [][Next]_vars

-----------------------------------------------------------------------------
(* The batch drivers.  main of src/process_invoices.py reads the command   *)
(* line and calls create_pac_invoices, which makes an Invoice of every     *)
(* <invoice> element of the XML file in turn; main of the older            *)
(* src/invoices/process_invoices.py has the loop in itself.  Between two   *)
(* elements pc is "idle".  The XML file is well-formed, --dump_invoices    *)
(* is not given, and the export job of the Alma API does not fail.         *)

MaxInvoices == 2

NewDriver == "src/process_invoices.py"
OldDriver == "src/invoices/process_invoices.py"

pac_filename == "LIBRY-APINTRFC.20231220"

\* Invoice(alma_invoice, ns) starts on a new object
Invoice(alma_invoice) ==
    /\ xml' = alma_invoice
    /\ pc' = "new"
    /\ hdr' = None
    /\ invoice_lines' = <<>>
    /\ pac' = None
    /\ totals' = None
    /\ pac_invoice_type' = None
    /\ pac_lines' = <<>>
    /\ valid' = None
    /\ validation_message' = None
    /\ pac_format' = None

\* main up to the call of create_pac_invoices; retrieve_alma_file returns ''
\* when the server has no file of the export job
main ==
    /\ script = NewDriver
    /\ driver_pc = "main"
    /\ args' = IF argv.production THEN argv
               ELSE With(argv, "skip_upload", FALSE)
    /\ production_mode' = argv.production
    /\ \E xml_file \in IF argv.xml_file = None THEN {"", "20231220.xml"}
                       ELSE {argv.xml_file} :
           LET sandbox == IF argv.production THEN <<>>
                          ELSE <<"Using SANDBOX">>
           IN IF xml_file # ""
              THEN /\ printed' = printed \o sandbox
                   /\ driver_pc' = "create"
              ELSE /\ printed' = printed \o sandbox
                                     \o <<"NO XML FILE TO PROCESS">>
                   /\ driver_pc' = "done"
    /\ UNCHANGED <<script, argv, root, position, pac_file, uploaded>>
    /\ UNCHANGED invoice_vars
    /\ UNCHANGED bookplate_vars

\* create_pac_invoices that leaves a file of an earlier run in place
create_pac_invoices_keep ==
    /\ script = NewDriver
    /\ driver_pc = "create"
    /\ position' = 0
    /\ driver_pc' = "loop"
    /\ UNCHANGED <<script, argv, args, production_mode, root, pac_file,
                   printed, uploaded>>
    /\ UNCHANGED invoice_vars
    /\ UNCHANGED bookplate_vars

\* create_pac_invoices up to its loop
create_pac_invoices ==
    /\ script = NewDriver
    /\ driver_pc = "create"
    /\ pac_file' = None
    /\ position' = 0
    /\ driver_pc' = "loop"
    /\ UNCHANGED <<script, argv, args, production_mode, root, printed,
                   uploaded>>
    /\ UNCHANGED invoice_vars
    /\ UNCHANGED bookplate_vars

\* the for statement takes the next element (the same in both drivers)
for_alma_invoice ==
    /\ driver_pc = "loop"
    /\ pc = "idle"
    /\ position < Len(root)
    /\ position' = position + 1
    /\ Invoice(root[position + 1])
    /\ UNCHANGED <<script, argv, args, production_mode, root, pac_file,
                   printed, uploaded, driver_pc>>
    /\ UNCHANGED bookplate_vars

\* "if production_mode: if invoice.is_valid(): ... invoice.get_pac_format()"
get_pac_format_if_valid ==
    /\ driver_pc = "loop"
    /\ pc = "validated"
    /\ production_mode = TRUE
    /\ valid = TRUE
    /\ get_pac_format

\* _write_invoice_to_file with the file opened in mode "w"
_write_invoice_to_file_w ==
    /\ driver_pc = "loop"
    /\ pc = "formatted"
    /\ \/ /\ pac_file' = pac_format
          /\ pc' = "written"
       \/ /\ pc' = "raised"
          /\ UNCHANGED pac_file
    /\ UNCHANGED <<xml, hdr, invoice_lines, pac, totals, pac_invoice_type,
                   pac_lines, valid, validation_message, pac_format>>
    /\ UNCHANGED <<script, argv, args, production_mode, root, position,
                   printed, uploaded, driver_pc>>
    /\ UNCHANGED bookplate_vars

\* open(pac_filename, "a") creates the file or appends to it, or raises
\* OSError and writes nothing
_write_invoice_to_file ==
    /\ driver_pc = "loop"
    /\ pc = "formatted"
    /\ \/ /\ pac_file' = (IF pac_file = None THEN "" ELSE pac_file)
                             \o pac_format
          /\ pc' = "written"
       \/ /\ pc' = "raised"
          /\ UNCHANGED pac_file
    /\ UNCHANGED <<xml, hdr, invoice_lines, pac, totals, pac_invoice_type,
                   pac_lines, valid, validation_message, pac_format>>
    /\ UNCHANGED <<script, argv, args, production_mode, root, position,
                   printed, uploaded, driver_pc>>
    /\ UNCHANGED bookplate_vars

\* print(invoice.data["validation_message"]), after the write of an accepted
\* invoice in production mode and straight after is_valid otherwise
print_validation_message ==
    /\ driver_pc = "loop"
    /\ \/ pc = "written"
       \/ pc = "validated" /\ ~(production_mode /\ valid)
    /\ printed' = Append(printed, validation_message)
    /\ pc' = "idle"
    /\ UNCHANGED <<xml, hdr, invoice_lines, pac, totals, pac_invoice_type,
                   pac_lines, valid, validation_message, pac_format>>
    /\ UNCHANGED <<script, argv, args, production_mode, root, position,
                   pac_file, uploaded, driver_pc>>
    /\ UNCHANGED bookplate_vars

\* the line that print(ex) writes
str_ex == "ex"

\* "except Exception as ex" of create_pac_invoices: the number is read from
\* the element again, as it stands
except_Exception ==
    /\ script = NewDriver
    /\ driver_pc = "loop"
    /\ pc = "raised"
    /\ printed' = printed \o <<str_ex, "ERROR: Bad invoice "
                                          \o str(xml.invoice_number)>>
    /\ pc' = "idle"
    /\ UNCHANGED <<xml, hdr, invoice_lines, pac, totals, pac_invoice_type,
                   pac_lines, valid, validation_message, pac_format>>
    /\ UNCHANGED <<script, argv, args, production_mode, root, position,
                   pac_file, uploaded, driver_pc>>
    /\ UNCHANGED bookplate_vars

\* "return pac_file" after the last element
return_pac_file ==
    /\ script = NewDriver
    /\ driver_pc = "loop"
    /\ pc = "idle"
    /\ position = Len(root)
    /\ driver_pc' = "upload"
    /\ UNCHANGED <<script, argv, args, production_mode, root, position,
                   pac_file, printed, uploaded>>
    /\ UNCHANGED invoice_vars
    /\ UNCHANGED bookplate_vars

\* main after create_pac_invoices has returned
main_upload ==
    /\ script = NewDriver
    /\ driver_pc = "upload"
    /\ IF args.skip_upload
       THEN /\ printed' = Append(printed, pac_filename \o " NOT uploaded")
            /\ UNCHANGED uploaded
       ELSE IF pac_file # None
       THEN /\ uploaded' = Append(uploaded, pac_file)
            /\ printed' = Append(printed, "Connected")
       ELSE /\ printed' = Append(printed, pac_filename \o " does not exist")
            /\ UNCHANGED uploaded
    /\ driver_pc' = "done"
    /\ UNCHANGED <<script, argv, args, production_mode, root, position,
                   pac_file>>
    /\ UNCHANGED invoice_vars
    /\ UNCHANGED bookplate_vars

\* main of the older driver up to its loop: PROD is True
invoices_main ==
    /\ script = OldDriver
    /\ driver_pc = "main"
    /\ production_mode' = TRUE
    /\ pac_file' = None
    /\ position' = 0
    /\ driver_pc' = "loop"
    /\ UNCHANGED <<script, argv, args, root, printed, uploaded>>
    /\ UNCHANGED invoice_vars
    /\ UNCHANGED bookplate_vars

\* the older driver has no try statement: an exception leaves main and the
\* script ends
invoices_main_raises ==
    /\ script = OldDriver
    /\ driver_pc = "loop"
    /\ pc = "raised"
    /\ driver_pc' = "raised"
    /\ UNCHANGED <<script, argv, args, production_mode, root, position,
                   pac_file, printed, uploaded>>
    /\ UNCHANGED invoice_vars
    /\ UNCHANGED bookplate_vars

\* the older driver ends after the last element
invoices_main_returns ==
    /\ script = OldDriver
    /\ driver_pc = "loop"
    /\ pc = "idle"
    /\ position = Len(root)
    /\ driver_pc' = "done"
    /\ UNCHANGED <<script, argv, args, production_mode, root, position,
                   pac_file, printed, uploaded>>
    /\ UNCHANGED invoice_vars
    /\ UNCHANGED bookplate_vars

\* the command lines: --production, --skip_upload, --xml_file
CommandLines ==
    [production : BOOLEAN, skip_upload : BOOLEAN,
     xml_file : {None, "invoices.xml"}]

\* the older driver takes the name of the XML file only
OldCommandLines == {[xml_file |-> "invoices.xml"]}

\* a file that an earlier run of the same day has left
StaleFile == "Z200101 STALE\n"

\* invoices that are accepted, rejected, and that raise an error
BatchInvoices ==
    {GoodInvoice,
     XmlInvoice("INV0002", "YBP", "ABC1234567",
                <<XmlLine("REGULAR", "SM-PR", 500, None,
                          <<XmlFund("LIB02", FullFau, 300),
                            XmlFund("LIB01", PlainFau, 200)>>)>>),
     With(GoodInvoice, "vendor_code", "LBS"),
     With(With(GoodInvoice, "invoice_number", "RUSH 4"), "sum", "abc"),
     With(GoodInvoice, "invoice_number", None)}

Documents == UNION {[1..n -> BatchInvoices] : n \in 0..MaxInvoices}

InitBatch ==
    /\ script \in {NewDriver, OldDriver}
    /\ argv \in IF script = NewDriver THEN CommandLines ELSE OldCommandLines
    /\ args = None
    /\ production_mode = None
    /\ root \in Documents
    /\ position = 0
    /\ pac_file \in {None, StaleFile}
    /\ printed = <<>>
    /\ uploaded = <<>>
    /\ driver_pc = "main"
    /\ xml = None
    /\ pc = "idle"
    /\ hdr = None
    /\ invoice_lines = <<>>
    /\ pac = None
    /\ totals = None
    /\ pac_invoice_type = None
    /\ pac_lines = <<>>
    /\ valid = None
    /\ validation_message = None
    /\ pac_format = None
    /\ marc_record = <<>>
    /\ report_item = None
    /\ field_966 = <<>>
    /\ called = None
    /\ needs_update = None
    /\ total_bibs_updated = 0
    /\ total_bibs_skipped = 0

NextBatch ==
    \/ main
    \/ create_pac_invoices
    \/ for_alma_invoice
    \/ _get_invoice_data
    \/ _remove_unwanted_lines
    \/ _add_line_data_all
    \/ _make_tsh_lines
    \/ _calculate_totals
    \/ _update_credit_faus
    \/ _get_pac_lines
    \/ is_valid
    \/ get_pac_format_if_valid
    \/ _write_invoice_to_file
    \/ print_validation_message
    \/ except_Exception
    \/ return_pac_file
    \/ main_upload
    \/ invoices_main
    \/ invoices_main_raises
    \/ invoices_main_returns

SpecBatch == InitBatch /\ [][NextBatch]_vars

-----------------------------------------------------------------------------
(* The 966 bookplate fields.  A pymarc Field is the sequence of its        *)
(* subfields, a Record the sequence of its 966 fields.  Alma returns the   *)
(* record as update_bib_record has stored it, and every 966 field of a     *)
(* record has one $a and one $b.                                           *)

MaxFields == 2
MaxPasses == 2

Subfield(code, value) == [code |-> code, value |-> value]

\* Field.get_subfields(code): the values of the subfields with the code
get_subfields(field, code) ==
    LET RECURSIVE values(_)
        values(i) ==
            IF i > Len(field) THEN <<>>
            ELSE IF field[i].code = code
            THEN <<field[i].value>> \o values(i + 1)
            ELSE values(i + 1)
    IN values(1)

\* Field.delete_subfield(code): without the first subfield with the code
delete_subfield(field, code) ==
    LET found == {i \in 1..Len(field) : field[i].code = code}
    IN IF found = {} THEN field
       ELSE LET first == CHOOSE i \in found : \A j \in found : i <= j
            IN SubSeq(field, 1, first - 1) \o SubSeq(field, first + 1, Len(field))

\* Field.add_subfield(code, value): the subfield goes to the end
add_subfield(field, code, value) == Append(field, Subfield(code, value))

is_new_966(old_record, spac_code) ==
    \A i \in 1..Len(old_record) :
        \A k \in 1..Len(get_subfields(old_record[i], "a")) :
            get_subfields(old_record[i], "a")[k] # spac_code

\* what a call returns that ends with get_subfields(...)[0] on an empty list
IndexError == "IndexError"

\* needs_bookplate_update with the test of the name as a last elif
needs_bookplate_update_elif(old_field, spac_code, spac_name, spac_url) ==
    IF get_subfields(old_field, "a") = <<>> THEN IndexError
    ELSE IF spac_code # get_subfields(old_field, "a")[1] THEN FALSE
    ELSE IF spac_url = "" /\ get_subfields(old_field, "c") # <<>> THEN TRUE
    ELSE IF spac_url # ""
    THEN get_subfields(old_field, "c") = <<>>
             \/ spac_url # get_subfields(old_field, "c")[1]
    ELSE IF get_subfields(old_field, "b") = <<>> THEN IndexError
    ELSE spac_name # get_subfields(old_field, "b")[1]

needs_bookplate_update(old_field, spac_code, spac_name, spac_url) ==
    IF get_subfields(old_field, "a") = <<>> THEN IndexError
    ELSE IF spac_code # get_subfields(old_field, "a")[1] THEN FALSE
    ELSE IF spac_url = "" /\ get_subfields(old_field, "c") # <<>> THEN TRUE
    ELSE IF spac_url # ""
            /\ (get_subfields(old_field, "c") = <<>>
                   \/ spac_url # get_subfields(old_field, "c")[1])
    THEN TRUE
    ELSE IF get_subfields(old_field, "b") = <<>> THEN IndexError
    ELSE spac_name # get_subfields(old_field, "b")[1]

\* add_new_966 that adds $c for an empty URL, too
add_new_966_with_c(record, spac_code, spac_name, spac_url) ==
    Append(record, <<Subfield("a", spac_code), Subfield("b", spac_name),
                     Subfield("9", "LOCAL"), Subfield("c", spac_url)>>)

add_new_966(record, spac_code, spac_name, spac_url) ==
    LET subfields == <<Subfield("a", spac_code), Subfield("b", spac_name),
                       Subfield("9", "LOCAL")>>
    IN Append(record, IF spac_url # ""
                      THEN Append(subfields, Subfield("c", spac_url))
                      ELSE subfields)

\* update_existing_966 that adds the new $c without deleting the old one
update_existing_966_add_c(field, spac_name, spac_url) ==
    LET b == add_subfield(delete_subfield(field, "b"), "b", spac_name)
    IN IF spac_url # "" THEN add_subfield(b, "c", spac_url) ELSE b

\* update_existing_966 of add_bib_ebookplates.py
update_existing_966(field, spac_name, spac_url) ==
    LET b == add_subfield(delete_subfield(field, "b"), "b", spac_name)
        c == delete_subfield(b, "c")
    IN IF spac_url # "" THEN add_subfield(c, "c", spac_url) ELSE c

\* update_existing_966 of update_bookplates_one_time.py
update_existing_966_one_time(field, spac_name, spac_url) ==
    LET b == add_subfield(delete_subfield(field, "b"), "b", spac_name)
        c == delete_subfield(b, "c")
    IN IF spac_url # "" THEN add_subfield(c, "c", spac_url) ELSE c

\* a call of needs_bookplate_update on field_966
call_needs_bookplate_update ==
    /\ needs_update' = needs_bookplate_update(field_966, report_item.spac_code,
                                              report_item.spac_name,
                                              report_item.spac_url)
    /\ called' = "needs_bookplate_update"
    /\ UNCHANGED <<marc_record, report_item, field_966, total_bibs_updated,
                   total_bibs_skipped>>
    /\ UNCHANGED <<invoice_vars, driver_vars>>

\* a call of update_existing_966 of add_bib_ebookplates.py on field_966
call_update_existing_966 ==
    /\ field_966' = update_existing_966(field_966, report_item.spac_name,
                                        report_item.spac_url)
    /\ called' = "update_existing_966"
    /\ UNCHANGED <<marc_record, report_item, needs_update, total_bibs_updated,
                   total_bibs_skipped>>
    /\ UNCHANGED <<invoice_vars, driver_vars>>

\* a call of update_existing_966 of update_bookplates_one_time.py
call_update_existing_966_one_time ==
    /\ field_966' = update_existing_966_one_time(field_966,
                                                 report_item.spac_name,
                                                 report_item.spac_url)
    /\ called' = "update_existing_966_one_time"
    /\ UNCHANGED <<marc_record, report_item, needs_update, total_bibs_updated,
                   total_bibs_skipped>>
    /\ UNCHANGED <<invoice_vars, driver_vars>>

\* the body of the loop of add_bookplates for the report item, on a bib
\* that Alma returns with a MARC record
add_bookplates ==
    /\ total_bibs_updated + total_bibs_skipped < MaxPasses
    /\ LET spac_code == report_item.spac_code
           spac_name == report_item.spac_name
           spac_url == report_item.spac_url
           needs == {i \in 1..Len(marc_record) :
                        needs_bookplate_update(marc_record[i], spac_code,
                                               spac_name, spac_url)}
           bib_was_updated == is_new_966(marc_record, spac_code) \/ needs # {}
       IN /\ marc_record' =
                 IF is_new_966(marc_record, spac_code)
                 THEN add_new_966(marc_record, spac_code, spac_name, spac_url)
                 ELSE [i \in 1..Len(marc_record) |->
                          IF i \in needs
                          THEN update_existing_966(marc_record[i], spac_name,
                                                   spac_url)
                          ELSE marc_record[i]]
          /\ IF bib_was_updated
             THEN /\ total_bibs_updated' = total_bibs_updated + 1
                  /\ UNCHANGED total_bibs_skipped
             ELSE /\ total_bibs_skipped' = total_bibs_skipped + 1
                  /\ UNCHANGED total_bibs_updated
    /\ called' = "add_bookplates"
    /\ UNCHANGED <<report_item, field_966, needs_update>>
    /\ UNCHANGED <<invoice_vars, driver_vars>>

SpacCodes == {"SPAC", "SPAC2"}
SpacNames == {"SPAC Name", "Different SPAC Name"}
SpacUrls == {"", "https://example.com", "https://newexample.com"}

ReportItems ==
    [spac_code : {"SPAC"}, spac_name : SpacNames, spac_url : SpacUrls]

\* 966 fields with one $a and one $b, and with no $c or one, empty or not
Fields ==
    {<<Subfield("a", a), Subfield("b", b)>> : a \in SpacCodes, b \in SpacNames}
      \cup {<<Subfield("a", a), Subfield("b", b), Subfield("c", c)>> :
               a \in SpacCodes, b \in SpacNames, c \in SpacUrls}

\* ... with local subfields before and after, and with no $b
OtherFields ==
    {<<Subfield("a", "SPAC"), Subfield("c", "https://example.com")>>,
     <<Subfield("a", "SPAC")>>,
     <<Subfield("c", ""), Subfield("9", "LOCAL"), Subfield("a", "SPAC2"),
       Subfield("b", "SPAC Name")>>,
     <<Subfield("a", "SPAC"), Subfield("b", "SPAC Name"),
       Subfield("9", "LOCAL"), Subfield("c", "https://example.com")>>}

Records == UNION {[1..n -> Fields] : n \in 0..MaxFields}

InitBookplates ==
    /\ report_item \in ReportItems
    /\ \/ marc_record \in Records /\ field_966 = <<Subfield("a", "SPAC")>>
       \/ marc_record = <<>> /\ field_966 \in Fields \cup OtherFields
    /\ called = "nothing"
    /\ needs_update = FALSE
    /\ total_bibs_updated = 0
    /\ total_bibs_skipped = 0
    /\ xml = None
    /\ pc = "idle"
    /\ hdr = None
    /\ invoice_lines = <<>>
    /\ pac = None
    /\ totals = None
    /\ pac_invoice_type = None
    /\ pac_lines = <<>>
    /\ valid = None
    /\ validation_message = None
    /\ pac_format = None
    /\ script = None
    /\ argv = None
    /\ args = None
    /\ production_mode = None
    /\ root = <<>>
    /\ position = 0
    /\ pac_file = None
    /\ printed = <<>>
    /\ uploaded = <<>>
    /\ driver_pc = None

NextBookplates ==
    \/ call_needs_bookplate_update
    \/ call_update_existing_966
    \/ call_update_existing_966_one_time
    \/ add_bookplates

SpecBookplates == InitBookplates /\ [][NextBookplates]_vars

-----------------------------------------------------------------------------
(* Properties of the Validator.                                            *)

\* the lines of a text that ends each line with a line feed
text_lines(text) ==
    LET nl == {i \in 1..Len(text) : Char(text, i) = "\n"}
        pos(k) == IF k = 0 THEN 0
                  ELSE CHOOSE p \in nl : Cardinality({q \in nl : q < p}) = k - 1
    IN [k \in 1..Cardinality(nl) |->
           IF pos(k) = pos(k - 1) + 1 THEN ""
           ELSE SubSeq(text, pos(k - 1) + 1, pos(k) - 1)]

Validated == pc \in {"validated", "formatted"}

LineIsBad(line) == Len(line) # 80 \/ ~isascii(line)
BadLines == {i \in 1..Len(pac_lines) : LineIsBad(pac_lines[i])}
MatchingPrefixes ==
    {i \in 1..Len(unwanted_prefixes) :
        Len(unwanted_prefixes[i]) <= Len(hdr.invoice_number)
            /\ \A c \in 1..Len(unwanted_prefixes[i]) :
                   Char(hdr.invoice_number, c) = Char(unwanted_prefixes[i], c)}
\* the digit 5, three digits, three uppercase letters, a digit
IsProcardNumber ==
    /\ Len(hdr.invoice_number) >= 8
    /\ Char(hdr.invoice_number, 1) = "5"
    /\ \A i \in {2, 3, 4, 8} : Char(hdr.invoice_number, i) \in DigitChars
    /\ \A i \in {5, 6, 7} : Char(hdr.invoice_number, i) \in UpperChars

RuleVendor == hdr.vendor_code = "LBS"
RuleVck == hdr.vck = None
RulePrefix == MatchingPrefixes # {}
RuleProcard == IsProcardNumber
RuleLength == \E i \in 1..Len(pac_lines) : Len(pac_lines[i]) # 80
RuleAscii == \E i \in 1..Len(pac_lines) : ~isascii(pac_lines[i])

Message(reason) == hdr.invoice_number \o " : " \o reason

\* C1: every line of the text of an accepted invoice is 80 characters long
\* and ASCII, one per rendered line, and an invoice with a rendered line that
\* is not 80 long is rejected, not cut or padded.
C1_AcceptedLinesAre80Ascii ==
    pc = "formatted" =>
        LET out == text_lines(pac_format)
        IN /\ valid = TRUE =>
                  /\ Len(out) = Len(pac_lines)
                  /\ \A i \in 1..Len(out) :
                         /\ Len(out[i]) = 80
                         /\ isascii(out[i])
                         /\ out[i] = upper(pac_lines[i])
           /\ RuleLength => valid = FALSE

C1_Witness ==
    /\ pc = "formatted"
    /\ valid = TRUE
    /\ Len(pac_lines) > 4
    /\ pac_format # join(pac_lines, 1) \o "\n"

\* the reason of the first matching rule in the order vendor code, VCK,
\* prefix, Procard, length, ASCII
FirstReason ==
    IF RuleVendor THEN "LBS Invoice"
    ELSE IF RuleVck THEN "No VCK"
    ELSE IF RulePrefix
    THEN "Unwanted prefix: "
             \o unwanted_prefixes[CHOOSE i \in MatchingPrefixes : TRUE]
    ELSE IF RuleProcard THEN "Unwanted Procard"
    ELSE IF RuleLength THEN "Bad length: "
    ELSE IF RuleAscii THEN "Not ASCII: "
    ELSE "OK"

\* C2 as stated: the reported reason is that of the first matching rule.
C2_FirstMatchWins ==
    Validated => startswith(validation_message, Message(FirstReason))

\* the reason of the last test that matched, in the order the tests run
LastReason ==
    IF BadLines # {}
    THEN LET k == CHOOSE i \in BadLines : \A j \in BadLines : j <= i
         IN IF ~isascii(pac_lines[k]) THEN "Not ASCII: " \o pac_lines[k]
            ELSE "Bad length: " \o pac_lines[k]
    ELSE IF RuleProcard THEN "Unwanted Procard"
    ELSE IF RulePrefix
    THEN "Unwanted prefix: "
             \o unwanted_prefixes[CHOOSE i \in MatchingPrefixes : TRUE]
    ELSE IF RuleVendor THEN "LBS Invoice"
    ELSE IF RuleVck THEN "No VCK"
    ELSE "OK"

\* C2, amended: the reported reason is that of the last matching test: a bad
\* rendered line (the last one; not ASCII before bad length on that line)
\* over Procard over prefix over vendor code over missing VCK.
C2_LastMatchWins == Validated => validation_message = Message(LastReason)

C2_Witness ==
    /\ pc = "validated"
    /\ RuleVendor /\ RuleVck /\ RulePrefix /\ BadLines = {}
    /\ validation_message = Message("Unwanted prefix: ADJUST")

\* C3: is_valid returns False exactly when one of the six rules matches, and
\* with no rule matching it returns True with the message '<number> : OK'.
C3_RejectedIffSomeRule ==
    Validated =>
        LET some == RuleVendor \/ RuleVck \/ RulePrefix \/ RuleProcard
                        \/ RuleLength \/ RuleAscii
        IN /\ valid = ~some
           /\ ~some => validation_message = Message("OK")

C3_Witness ==
    /\ pc = "validated" /\ valid = TRUE
    /\ validation_message = "INV0001 : OK"

\* C4 as stated: a Procard number is rejected with the Procard reason, and
\* "50012ABC3" is such a number.
C4_ProcardAsStated ==
    Validated =>
        ((RuleProcard \/ hdr.invoice_number = "50012ABC3") =>
            valid = FALSE /\ validation_message = Message("Unwanted Procard"))

\* C4, amended: a number matching the Procard pattern (such as "5001ABC3")
\* is rejected, with the Procard reason when every rendered line is good and
\* with the reason of the last bad line otherwise; "50012ABC3" has four
\* digits after the 5, does not match, and is rejected only by another rule.
C4_Procard ==
    Validated =>
        /\ (RuleProcard \/ hdr.invoice_number = "5001ABC3") =>
               /\ valid = FALSE
               /\ BadLines = {} =>
                      validation_message = Message("Unwanted Procard")
               /\ BadLines # {} =>
                      \/ startswith(validation_message, Message("Bad length: "))
                      \/ startswith(validation_message, Message("Not ASCII: "))
        /\ hdr.invoice_number = "50012ABC3" =>
               /\ validation_message # Message("Unwanted Procard")
               /\ valid = ~(RuleVendor \/ RuleVck \/ BadLines # {})

C4_Witness ==
    /\ pc = "validated" /\ hdr.invoice_number = "5001ABC3"
    /\ validation_message = "5001ABC3 : Unwanted Procard"

\* C5 as stated: a number with a disallowed prefix is rejected and the
\* reason names the prefix, whatever the other fields are.
C5_PrefixAsStated ==
    Validated =>
        \A i \in MatchingPrefixes :
            /\ valid = FALSE
            /\ validation_message
                   = Message("Unwanted prefix: " \o unwanted_prefixes[i])

\* C5, amended: a number with a disallowed prefix is always rejected; the
\* reason names the prefix when every rendered line is 80 long and ASCII,
\* and is the reason of the last bad rendered line otherwise.
C5_Prefix ==
    Validated =>
        \A i \in MatchingPrefixes :
            /\ valid = FALSE
            /\ BadLines = {} =>
                   validation_message
                       = Message("Unwanted prefix: " \o unwanted_prefixes[i])
            /\ BadLines # {} =>
                   \/ startswith(validation_message, Message("Bad length: "))
                   \/ startswith(validation_message, Message("Not ASCII: "))

C5_Witness ==
    /\ pc = "validated" /\ hdr.invoice_number = "ADJUST0001"
    /\ hdr.vendor_code = "YBP" /\ hdr.vck # None
    /\ validation_message = "ADJUST0001 : Unwanted prefix: ADJUST"

-----------------------------------------------------------------------------
(* Properties of the line list.                                            *)

\* the source sequence number of a line: its line number up to a split suffix
SeqNo(line) ==
    LET n == line.line_number
        dash == {i \in 1..Len(n) : Char(n, i) = "-"}
    IN IF dash = {} THEN int(n)
       ELSE int(SubSeq(n, 1, (CHOOSE i \in dash : \A j \in dash : i <= j) - 1))

Ascending(lines) ==
    \A i, j \in 1..Len(lines) : i < j => SeqNo(lines[i]) <= SeqNo(lines[j])

\* C6: no line of amount 0 is in the line list when _calculate_totals
\* runs or when the cards are emitted, the halves of a split included.
C6_NoZeroAmountLine ==
    pc \in {"split", "totaled", "updated"} =>
        \A i \in 1..Len(invoice_lines) : invoice_lines[i].total_price # 0

\* C7 as stated: after extraction the line list is at every stage in
\* ascending order of the source sequence number.
C7_AlwaysAscending ==
    pc \notin {"new", "raised"} => Ascending(invoice_lines)

is_tsh(line) == line.line_code = "TSH"
not_tsh(line) == line.line_code # "TSH"

\* C7, amended: the line list is in ascending order of the source sequence
\* number, whatever the document order, up to the shipping split; the split
\* appends the TSH lines after all other lines, so from then on the other
\* lines are ascending and are followed by the TSH lines, ascending among
\* themselves, and the Z21 counters follow this list order.
C7_AscendingThenTsh ==
    /\ pc \in {"extracted", "filtered", "enriched"} => Ascending(invoice_lines)
    /\ pc \in {"split", "totaled", "updated", "built", "validated", "formatted"}
           => /\ invoice_lines = SelectSeq(invoice_lines, not_tsh)
                                     \o SelectSeq(invoice_lines, is_tsh)
              /\ Ascending(SelectSeq(invoice_lines, not_tsh))
              /\ Ascending(SelectSeq(invoice_lines, is_tsh))
    /\ pc \in {"built", "validated", "formatted"} =>
           \A i, j \in 1..Len(invoice_lines) :
               (/\ i < j
                /\ "pac_line_number" \in DOMAIN invoice_lines[i]
                /\ "pac_line_number" \in DOMAIN invoice_lines[j])
                   => invoice_lines[i].pac_line_number
                          < invoice_lines[j].pac_line_number

C7_Witness ==
    /\ pc = "built"
    /\ Len(xml.invoice_line_list) = 2
    /\ int(xml.invoice_line_list[1].line_number)
           > int(xml.invoice_line_list[2].line_number)
    /\ Len(invoice_lines) = 3
    /\ is_tsh(invoice_lines[3])
    /\ SeqNo(invoice_lines[3]) < SeqNo(invoice_lines[2])

\* amount is X times rate/100 rounded to the nearest cent
IsRounded(amount, X, rate) == 2 * Abs(100 * amount - rate * X) < 100

NumberedLines(lines, number) ==
    {i \in 1..Len(lines) : lines[i].line_number = number}

\* the line lists before and after _make_tsh_lines, as C8 states them
SplitAsStated(before, after, strict) ==
    /\ Len(after) = Len(before)
           + Cardinality({i \in 1..Len(before) : before[i].line_code = "ESH"})
    /\ \A i \in 1..Len(before) :
           before[i].line_code = "ESH" =>
               LET X == before[i].total_price
                   N == before[i].line_number
                   esh == NumberedLines(after, N \o "-ESH")
                   tsh == NumberedLines(after, N \o "-TSH")
               IN /\ Cardinality(esh) = 1 /\ Cardinality(tsh) = 1
                  /\ NumberedLines(after, N) = {}
                  /\ \A e \in esh :
                         /\ after[e].line_code = "ESH"
                         /\ IsRounded(after[e].total_price, X, 80)
                         /\ after[e].original_price = X
                         /\ (strict \/ X > 2) => after[e].total_price # X
                  /\ \A t \in tsh :
                         /\ after[t].line_code = "TSH"
                         /\ IsRounded(after[t].total_price, X, 20)
                         /\ after[t].original_price = X
                         /\ after[t].total_price # X

\* both halves of every split are summed and carded
HalvesAreUsed ==
    /\ pc = "totaled" =>
           totals.total_amount_pac + totals.total_state_tax
               = SeqSum(LAMBDA l : IF /\ l.line_type = "BA"
                                      /\ l.line_code = "CR "
                                      /\ Slice(l.lbs_tax_code, 0, 1) = "T"
                                   THEN 0 ELSE l.total_price, invoice_lines)
    /\ pc \in {"built", "validated", "formatted"} =>
           \A i \in 1..Len(invoice_lines) :
               invoice_lines[i].line_code \in {"ESH", "TSH"} =>
                   /\ "pac_line_number" \in DOMAIN invoice_lines[i]
                   /\ \E k \in 1..Len(pac_lines) :
                          pac_lines[k]
                              = "Z210102 "
                                  \o _format_amount(invoice_lines[i].total_price)
                                  \o invoice_lines[i].description
                                  \o invoice_lines[i].pac_tax_code

\* C8 as stated: every ESH line of amount X and number N is replaced by an
\* ESH line N-ESH of round(0.8*X, 2) and a TSH line N-TSH of round(0.2*X, 2),
\* both with original_price X, and no line keeps the amount X.
C8_SplitAsStated ==
    [][pc = "enriched" => SplitAsStated(invoice_lines, invoice_lines', TRUE)]_vars

\* C8, amended: as stated, except that no line keeps the line number N, and
\* the ESH line keeps the amount X itself when X is 0.01 or 0.02 (0.8*X then
\* rounds to X and the TSH line has amount 0.00); both halves are summed by
\* the totals and get a Z21 card.
C8_Split ==
    /\ [][pc = "enriched" =>
              SplitAsStated(invoice_lines, invoice_lines', FALSE)]_vars
    /\ []HalvesAreUsed

C8_Witness ==
    /\ pc = "built"
    /\ \E i, j \in 1..Len(invoice_lines) :
           /\ invoice_lines[i].line_number = "1-ESH"
           /\ invoice_lines[j].line_number = "1-TSH"
           /\ invoice_lines[i].original_price = 24
           /\ invoice_lines[i].total_price = 19
           /\ invoice_lines[j].total_price = 5

\* the cents that the two halves of a split of X sum to
SplitSum(X) ==
    _get_dollars(DecimalMul(X, esh_rate)) + _get_dollars(DecimalMul(X, tsh_rate))

\* C9 as stated: some amount X in whole cents is split with one cent lost or
\* gained, and none with more.
C9_SomeSplitDrifts ==
    pc = "split" =>
        /\ \E X \in 1..MaxShip : SplitSum(X) # X
        /\ \A X \in 1..MaxShip : Abs(SplitSum(X) - X) <= 1

\* C9, amended: for every amount X in whole cents the two halves sum to X
\* exactly: the split loses or gains nothing.
C9_SplitIsExact ==
    pc \in {"split", "totaled", "updated", "built", "validated", "formatted"} =>
        \A i, j \in 1..Len(invoice_lines) :
            (/\ invoice_lines[i].line_code = "ESH"
             /\ invoice_lines[j].line_code = "TSH"
             /\ SeqNo(invoice_lines[i]) = SeqNo(invoice_lines[j]))
                => invoice_lines[i].total_price + invoice_lines[j].total_price
                       = invoice_lines[i].original_price

C9_Witness ==
    /\ pc = "split"
    /\ \E i, j \in 1..Len(invoice_lines) :
           /\ invoice_lines[i].line_code = "ESH"
           /\ invoice_lines[j].line_code = "TSH"
           /\ invoice_lines[i].original_price = 13
           /\ invoice_lines[i].total_price = 10
           /\ invoice_lines[j].total_price = 3

\* C10: enrichment turns a positive DISCOUNT amount a into -a and changes no
\* other amount, so that no DISCOUNT line has a positive amount afterwards.
C10_DiscountSign ==
    /\ [][pc = "filtered" =>
              /\ Len(invoice_lines') = Len(invoice_lines)
              /\ \A i \in 1..Len(invoice_lines) :
                     LET a == invoice_lines[i].total_price
                         b == invoice_lines'[i].total_price
                     IN /\ invoice_lines'[i].line_type
                               = invoice_lines[i].line_type
                        /\ IF invoice_lines[i].line_type = "DISCOUNT" /\ a > 0
                           THEN b = 0 - a
                           ELSE b = a]_vars
    /\ [](pc \in {"enriched", "split", "totaled", "updated", "built",
                  "validated", "formatted"} =>
              \A i \in 1..Len(invoice_lines) :
                  invoice_lines[i].line_type = "DISCOUNT"
                      => invoice_lines[i].total_price < 0)

C10_Witness ==
    /\ pc = "enriched"
    /\ \E i \in 1..Len(xml.invoice_line_list), j, k \in 1..Len(invoice_lines) :
           /\ xml.invoice_line_list[i].line_type = "DISCOUNT"
           /\ xml.invoice_line_list[i].total_price = "0.02"
           /\ invoice_lines[j].line_number
                  = xml.invoice_line_list[i].line_number
           /\ invoice_lines[j].total_price = -2
           /\ invoice_lines[k].line_type = "REGULAR"
           /\ invoice_lines[k].total_price = 1

-----------------------------------------------------------------------------
(* Properties of the line classification.                                  *)

Enriched ==
    pc \in {"enriched", "split", "totaled", "updated", "built", "validated",
            "formatted"}

\* the result of the first rule of a table <<condition, result>> that matches
FirstMatch(rules) ==
    LET first == CHOOSE i \in 1..Len(rules) :
                     rules[i][1] /\ \A j \in 1..(i - 1) : ~rules[j][1]
    IN rules[first][2]

\* characters a..b of a reporting code, counted from 1
CodeChars(code, a, b) ==
    IF Len(code) < a THEN ""
    ELSE SubSeq(code, a, IF Len(code) < b THEN Len(code) ELSE b)

SpecialTax(code) == \E k \in 1..9 : code = "T" \o Char("ABCDEFGHI", k)

\* the rule table of the line code, in the stated order
LineCodeRules(l) ==
    <<<<l.total_price < 0, "CR">>,
      <<l.line_type = "SHIPMENT" /\ CodeChars(l.reporting_code, 3, 5) = "-SH",
        "ESH">>,
      <<CodeChars(l.reporting_code, 3, 5) = "-FT", "FT">>,
      <<l.reporting_code = "EX-PR", "SVS">>,
      <<CodeChars(l.reporting_code, 3, 5) = "-PR", "MAT">>,
      <<SpecialTax(l.reporting_code), "CR">>,
      <<TRUE, "DR">>>>

Padded3(code) == IF Len(code) = 2 THEN code \o " " ELSE code

\* C11: the line code that enrichment gives a line is that of the first
\* matching rule of the table (credit amount, shipping, freight, EX-PR,
\* -PR, special tax, otherwise debit), padded with spaces, and every line
\* code is 3 characters long.
C11_LineCodeTable ==
    /\ pc = "enriched" =>
           \A i \in 1..Len(invoice_lines) :
               invoice_lines[i].line_code
                   = Padded3(FirstMatch(LineCodeRules(invoice_lines[i])))
    /\ Enriched =>
           \A i \in 1..Len(invoice_lines) :
               Len(invoice_lines[i].line_code) = 3

C11_Witness ==
    /\ pc = "enriched"
    /\ \E i \in 1..Len(invoice_lines) :
           /\ invoice_lines[i].line_type = "SHIPMENT"
           /\ invoice_lines[i].reporting_code = "EX-SH"
           /\ invoice_lines[i].total_price < 0
           /\ invoice_lines[i].line_code = "CR "


\* the rule table of the tax classification, in the stated order; freight
\* is the line code that the freight rule of the line-code table gives
TaxCodeRules(l) ==
    <<<<CodeChars(l.reporting_code, 1, 2) = "EX" \/ l.line_code = Padded3("FT"),
        "E ">>,
      <<CodeChars(l.reporting_code, 1, 2) = "VR", "TM">>,
      <<l.line_code = "ESH", "E ">>,
      <<l.line_code = "TSH", "SM">>,
      <<l.line_code = Padded3("CR"), "E ">>,
      <<TRUE, "SM">>>>

\* C12: the tax classification of every line, the TSH line of a split
\* included, is that of the first matching rule of the table: EX code or
\* freight line code exempt, VR code 'TM', ESH exempt, TSH 'SM', credit
\* exempt, otherwise 'SM'.
C12_TaxCodeAsStated ==
    Enriched =>
        \A i \in 1..Len(invoice_lines) :
            invoice_lines[i].pac_tax_code
                = FirstMatch(TaxCodeRules(invoice_lines[i]))

-----------------------------------------------------------------------------
(* Properties of the totals.                                               *)

Totaled == pc \in {"totaled", "updated", "built", "validated", "formatted"}

\* the number of the rule of the totals that a line matches first
TotalsRule(l) ==
    FirstMatch(
        <<<<l.line_type = "BA" /\ CodeChars(l.reporting_code, 1, 2) = "VR", 1>>,
          <<l.line_type = "BA" /\ l.line_code = Padded3("CR")
                /\ CodeChars(l.reporting_code, 1, 1) = "T", 2>>,
          <<l.line_type = "BA"
                /\ CodeChars(l.reporting_code, 1, 2) \in {"TM", "TS"}, 3>>,
          <<l.line_type = "BA", 4>>,
          <<l.pac_tax_code = "SM", 5>>,
          <<l.pac_tax_code = "TM", 6>>,
          <<TRUE, 7>>>>)

\* the sum of the amounts of the lines that match one of the rules
RuleSum(lines, rules) ==
    SeqSum(LAMBDA l : IF TotalsRule(l) \in rules THEN l.total_price ELSE 0,
           lines)

StatedTotals(lines) ==
    [total_vendor_tax     |-> RuleSum(lines, {1, 2}),
     total_non_taxable    |-> RuleSum(lines, {4, 7}) - RuleSum(lines, {2}),
     total_state_tax      |-> RuleSum(lines, {3}),
     total_state_taxable  |-> RuleSum(lines, {5}),
     total_vendor_taxable |-> RuleSum(lines, {6})]

\* C13: every bucket is the sum of the amounts of the lines whose first
\* matching rule feeds it: BA with VR code to vendor-tax; BA credit with T
\* code to vendor-tax and, negated, to non-taxable; BA with TM or TS code to
\* state-tax; other BA to non-taxable; other lines by tax classification SM
\* to state-taxable, TM to vendor-taxable, otherwise to non-taxable.
C13_BucketsByFirstRule ==
    Totaled =>
        \A b \in DOMAIN StatedTotals(invoice_lines) :
            totals[b] = StatedTotals(invoice_lines)[b]

C13_Witness ==
    /\ pc = "totaled"
    /\ Len(invoice_lines) = 1
    /\ invoice_lines[1].line_type = "BA"
    /\ invoice_lines[1].reporting_code = "TM"
    /\ invoice_lines[1].total_price = -1
    /\ totals.total_vendor_tax = -1
    /\ totals.total_non_taxable = 1
    /\ totals.total_state_tax = 0

Built == pc \in {"built", "validated", "formatted"}

\* C14: the invoice total is the sum of the state-taxable, vendor-taxable,
\* non-taxable and vendor-tax buckets, without the state-tax bucket; the
\* invoice type is 'D' exactly when the total is not negative, 'C'
\* otherwise; and the second header line carries the absolute value of the
\* total in cents, directly followed by the type.
C14_TotalAndType ==
    /\ Totaled =>
           /\ totals.total_amount_pac
                  = totals.total_state_taxable + totals.total_vendor_taxable
                        + totals.total_non_taxable + totals.total_vendor_tax
           /\ pac_invoice_type \in {"D", "C"}
           /\ pac_invoice_type = "D" <=> totals.total_amount_pac >= 0
    /\ Built =>
           LET line == pac_lines[2]
           IN /\ SubSeq(line, 1, 8) = "Z200102 "
              /\ \A i \in 9..23 : Char(line, i) \in DigitChars
              /\ int(SubSeq(line, 9, 23)) = Abs(totals.total_amount_pac)
              /\ Char(line, 24) = pac_invoice_type

C14_Witness ==
    /\ pc = "built"
    /\ totals.total_state_tax = 1
    /\ totals.total_amount_pac = -1
    /\ pac_invoice_type = "C"
    /\ SubSeq(pac_lines[2], 9, 24) = "000000000000001C"

-----------------------------------------------------------------------------
(* Properties of the credit tax-line rewrite.                              *)

\* the account strings of the fund allocations of a line
FundStrings(l) ==
    [i \in 1..Len(l.fund_info) |-> <<l.fund_info[i].fau, l.fund_info[i].pac_fau>>]

SpecialAccount(code) ==
    LET accounts == <<"115523", "115522", "115524", "115521", "115529",
                      "115528", "115518", "115519", "115525">>
        own == {k \in 1..9 : code = "T" \o Char("ABCDEFGHI", k)}
    IN IF own = {} THEN accounts[6] ELSE accounts[CHOOSE k \in own : TRUE]

\* a line that the rewrite is applied to
RewriteTarget(l) ==
    pac_invoice_type = "D" /\ l.line_type = "BA" /\ l.line_code = Padded3("CR")

C16_RewriteIdempotent ==
    (pc = "updated" \/ Built) =>
        LET again == _update_credit_faus_loop(invoice_lines)
        IN /\ Len(again) = Len(invoice_lines)
           /\ \A i \in 1..Len(invoice_lines) :
                  FundStrings(again[i]) = FundStrings(invoice_lines[i])

C16_Witness ==
    /\ pc = "updated"
    /\ pac_invoice_type = "D"
    /\ \E i \in 1..Len(invoice_lines) :
           /\ invoice_lines[i].line_type = "BA"
           /\ invoice_lines[i].reporting_code = "TA"
           /\ invoice_lines[i].line_code = "CR "
           /\ xml.invoice_line_list[1].fund_info_list # <<>>
           /\ xml.invoice_line_list[1].fund_info_list[1].external_id = PlainFau
           /\ FundStrings(invoice_lines[i])
                  = <<<<"4 115523    18888        ",
                        "4115523  18888            001234">>>>

-----------------------------------------------------------------------------
(* Properties of the cards.                                                *)

\* a tax line that gets no Z21 card
Suppressed(l) ==
    l.line_type = "BA" /\ CodeChars(l.reporting_code, 1, 2) \in {"TM", "TS", "VR"}

Carded(l) == ~Suppressed(l)

\* what every first line of a Z21 or Z41 card starts with, after the card id
CardKey == " A" \o pac.pac_vck \o " " \o pac.pac_invoice_number

\* the positions in pac_lines of the lines that start with a prefix
LinesOf(prefix) ==
    {k \in 1..Len(pac_lines) :
        Len(pac_lines[k]) >= Len(prefix)
            /\ SubSeq(pac_lines[k], 1, Len(prefix)) = prefix}

\* the line counter on the first line of a Z21 card
Z21Counter(k) ==
    int(SubSeq(pac_lines[k], Len("Z210101" \o CardKey) + 1,
               Len("Z210101" \o CardKey) + 4))

\* the Z21 cards of a line: first lines with its counter, followed by a
\* second line with its amount, description and tax classification
Z21CardsOf(l) ==
    {k \in LinesOf("Z210101" \o CardKey) :
        /\ "pac_line_number" \in DOMAIN l
        /\ Z21Counter(k) = l.pac_line_number
        /\ pac_lines[k + 1]
               = "Z210102 " \o _format_amount(l.total_price) \o l.description
                     \o l.pac_tax_code}

\* C17: a line gets a Z21 card exactly when it is not a BA line with a
\* reporting code starting TM, TS or VR; each such line gets exactly one
\* card, the special-tax credit lines and both halves of a split included;
\* and the amount of every line without a card is in the tax buckets.
C17_CardedIffNotPlainTax ==
    Built =>
        /\ \A i \in 1..Len(invoice_lines) :
               /\ "pac_line_number" \in DOMAIN invoice_lines[i]
                      <=> Carded(invoice_lines[i])
               /\ Cardinality(Z21CardsOf(invoice_lines[i]))
                      = IF Carded(invoice_lines[i]) THEN 1 ELSE 0
        /\ Cardinality(LinesOf("Z210101"))
               = Len(SelectSeq(invoice_lines, Carded))
        /\ totals.total_vendor_tax + totals.total_state_tax
               = StatedTotals(SelectSeq(invoice_lines, Carded)).total_vendor_tax
                   + StatedTotals(SelectSeq(invoice_lines, Carded)).total_state_tax
                   + SeqSum(LAMBDA l : l.total_price,
                            SelectSeq(invoice_lines, Suppressed))

C17_Witness ==
    /\ pc = "built"
    /\ Len(invoice_lines) = 2
    /\ \E i, j \in 1..2 :
           /\ invoice_lines[i].line_type = "BA"
           /\ invoice_lines[i].reporting_code = "TM"
           /\ "pac_line_number" \notin DOMAIN invoice_lines[i]
           /\ invoice_lines[j].line_type = "BA"
           /\ invoice_lines[j].reporting_code = "TA"
           /\ "pac_line_number" \in DOMAIN invoice_lines[j]
    /\ totals.total_state_tax = 1
    /\ Len(pac_lines) = 7

\* the number of Z21 cards that start at or before position k
Z21Rank(k) == Cardinality({j \in LinesOf("Z210101") : j <= k})

\* the line counter on the first line of a Z41 card
Z41Counter(k) ==
    int(SubSeq(pac_lines[k], Len("Z410101" \o CardKey) + 31,
               Len("Z410101" \o CardKey) + 34))

\* C18: the counters of the Z21 cards of an invoice are 1, 2, ..., k in the
\* order of the cards, whatever the source line numbers are and with no
\* number spent on a line without a card, and every Z41 card carries the
\* counter of the last Z21 card before it.
C18_CountersAreSequential ==
    Built =>
        /\ \A k \in LinesOf("Z210101") :
               /\ Z21Counter(k) = Z21Rank(k)
               /\ \A c \in 1..4 :
                      Char(pac_lines[k], Len("Z210101" \o CardKey) + c)
                          \in DigitChars
        /\ \A k \in LinesOf("Z410101") :
               Z21Rank(k) >= 1 /\ Z41Counter(k) = Z21Rank(k)
        /\ \A i \in 1..Len(invoice_lines) :
               Carded(invoice_lines[i]) =>
                   invoice_lines[i].pac_line_number
                       = Len(SelectSeq(SubSeq(invoice_lines, 1, i), Carded))

C18_Witness ==
    /\ pc = "built"
    /\ Len(invoice_lines) = 2
    /\ Suppressed(invoice_lines[1])
    /\ invoice_lines[2].line_number = "9"
    /\ Carded(invoice_lines[2])
    /\ invoice_lines[2].pac_line_number = 1
    /\ Cardinality(LinesOf("Z410101")) = 2
    /\ \A k \in LinesOf("Z410101") : Z41Counter(k) = 1

StartsWith(line, prefix) ==
    Len(line) >= Len(prefix) /\ SubSeq(line, 1, Len(prefix)) = prefix

\* position k holds line 1 of the Z41 card of a fund
IsZ41CardOf(k, fund) ==
    /\ k + 2 <= Len(pac_lines)
    /\ StartsWith(pac_lines[k], "Z410101" \o CardKey)
    /\ StartsWith(pac_lines[k + 1], "Z410102 ")
    /\ int(SubSeq(pac_lines[k + 1], 32, 46)) = Abs(fund.usd_amount)
    /\ pac_lines[k + 2] = "Z410103 " \o fund.pac_fau \o _get_blanks(40)

\* the fund codes of the XML line that a line was extracted from
XmlFundCodes(l) ==
    UNION {{x.fund_info_list[j].code : j \in 1..Len(x.fund_info_list)} :
              x \in {xml.invoice_line_list[i] :
                        i \in {n \in 1..Len(xml.invoice_line_list) :
                                  int(xml.invoice_line_list[n].line_number)
                                      = SeqNo(l)}}}

\* C19: the card of a line with one fund has the fund's formatted account
\* string on its third line and no Z41 card after it; the card of a line
\* with more than one fund has blank account columns and is followed by one
\* Z41 card per fund, in the order of the fund codes, each with the amount
\* and the formatted account string of its fund.
C19_AccountOrZ41 ==
    Built =>
        \A i \in 1..Len(invoice_lines) :
            \A k \in Z21CardsOf(invoice_lines[i]) :
                LET l == invoice_lines[i]
                    n == Len(l.fund_info)
                    line3 == pac_lines[k + 2]
                IN /\ StartsWith(line3, "Z210103 ")
                   /\ n = 1 =>
                          /\ StartsWith(line3, "Z210103 " \o l.fund_info[1].pac_fau)
                          /\ ~StartsWith(pac_lines[k + 3], "Z41")
                   /\ n > 1 =>
                          /\ SubSeq(line3, 9, 40) = Repeat(" ", 32)
                          /\ \A j \in 1..n :
                                 IsZ41CardOf(k + 3 * j, l.fund_info[j])
                          /\ ~StartsWith(pac_lines[k + 3 * n + 3], "Z41")
                          /\ \A j \in 1..(n - 1) :
                                 str_lt(l.fund_info[j].fund_code,
                                        l.fund_info[j + 1].fund_code)
                          /\ {l.fund_info[j].fund_code : j \in 1..n}
                                 = XmlFundCodes(l)

C19_Witness ==
    /\ pc = "built"
    /\ Len(pac_lines) = 13
    /\ Len(xml.invoice_line_list) = 1
    /\ Len(xml.invoice_line_list[1].fund_info_list) = 2
    /\ xml.invoice_line_list[1].fund_info_list[1].code = "LIB02"
    /\ xml.invoice_line_list[1].fund_info_list[1].sum = "3.00"
    /\ SubSeq(pac_lines[6], 9, 40) = Repeat(" ", 32)
    /\ SubSeq(pac_lines[8], 32, 46) = "000000000000200"
    /\ SubSeq(pac_lines[11], 32, 46) = "000000000000300"

\* the rendered lines of the cards of the lines, a line of n funds counted
\* with size(n) lines
CardLines(lines, size(_)) ==
    SeqSum(LAMBDA l : size(Len(l.fund_info)), SelectSeq(lines, Carded))

\* the rendered lines of a line of n funds, as C20 states them
StatedSize(n) == IF n >= 1 THEN 3 + 3 * (n - 1) ELSE 3

\* ... and as the cards are emitted: a Z41 card for every fund of a line
\* with more than one
CardSize(n) == IF n > 1 THEN 3 + 3 * n ELSE 3

\* three Z20 lines first, Z21 and Z41 lines between, one Z25 line last
HeaderAndTrailer ==
    /\ Len(pac_lines) >= 4
    /\ StartsWith(pac_lines[1], "Z200101")
    /\ StartsWith(pac_lines[2], "Z200102")
    /\ StartsWith(pac_lines[3], "Z200103")
    /\ StartsWith(pac_lines[Len(pac_lines)], "Z250101")
    /\ \A k \in 4..(Len(pac_lines) - 1) :
           StartsWith(pac_lines[k], "Z21") \/ StartsWith(pac_lines[k], "Z41")

\* C20 as stated: a carded line with n funds renders 3 + 3*(n-1) lines,
\* between the 3 header lines and the authorization line.
C20_LineCountAsStated ==
    Built =>
        /\ HeaderAndTrailer
        /\ Len(pac_lines) = 4 + CardLines(invoice_lines, StatedSize)

\* C20, amended: 3 header lines first, then for each carded line in list
\* order its 3 Z21 lines, followed for a line with n > 1 funds by 3 Z41 lines
\* for each of the n funds (3 + 3*n lines; 3 lines for a line with at most
\* one fund), then 1 authorization line last.
C20_LineSequence ==
    Built =>
        /\ HeaderAndTrailer
        /\ Len(pac_lines) = 4 + CardLines(invoice_lines, CardSize)
        /\ \A i \in 1..Len(invoice_lines) :
               Carded(invoice_lines[i]) =>
                   LET k == 4 + CardLines(SubSeq(invoice_lines, 1, i - 1),
                                          CardSize)
                       n == Len(invoice_lines[i].fund_info)
                   IN /\ Z21CardsOf(invoice_lines[i]) = {k}
                      /\ StartsWith(pac_lines[k + 1], "Z210102")
                      /\ StartsWith(pac_lines[k + 2], "Z210103")
                      /\ \A j \in 3..(CardSize(n) - 1) :
                             StartsWith(pac_lines[k + j],
                                        "Z41010" \o Char("123", (j % 3) + 1))

C20_Witness ==
    /\ pc = "built"
    /\ Len(invoice_lines) = 2
    /\ \A i \in 1..2 :
           Carded(invoice_lines[i]) /\ Len(invoice_lines[i].fund_info) = 2
    /\ Len(pac_lines) = 22

-----------------------------------------------------------------------------
(* The description of a line.                                              *)

\* the line number as the XML had it, without the suffix of the split
SourceNumber(line) ==
    LET n == line.line_number
        dash == {i \in 1..Len(n) : Char(n, i) = "-"}
    IN IF dash = {} THEN n
       ELSE SubSeq(n, 1, (CHOOSE i \in dash : \A j \in dash : i <= j) - 1)

\* the note as the text of the description: empty for a line with no note
NoteText(line) == IF line.note = None THEN "" ELSE line.note

StatedDescription(line) ==
    LET text == hdr.unique_identifier \o " : " \o SourceNumber(line)
                    \o " : " \o NoteText(line)
    IN ljust(Slice(text, 0, 55), 55, " ")

\* C21: the description of every line is 55 characters long: the unique
\* identifier, ' : ', the line sequence number, ' : ' and the note text, cut
\* to 55 characters and padded with spaces on the right; for a line with no
\* note the note text is empty, so only padding follows the second ' : '.
C21_DescriptionAsStated ==
    Enriched =>
        \A i \in 1..Len(invoice_lines) :
            /\ Len(invoice_lines[i].description) = 55
            /\ invoice_lines[i].description = StatedDescription(invoice_lines[i])

-----------------------------------------------------------------------------
(* Required fields.                                                        *)

Absent(text) == text = None
NotAnAmount(text) == Absent(text) \/ ~IsDecimal(_get_value(text))

\* a required field of the element is absent or, for an amount, no number
RequiredFieldMissing(x) ==
    \/ Absent(x.invoice_number)
    \/ Absent(x.currency)
    \/ NotAnAmount(x.sum)
    \/ \E i \in 1..Len(x.invoice_line_list) :
           NotAnAmount(x.invoice_line_list[i].total_price)

\* C22: constructing an Invoice from an element in which the invoice number,
\* the total amount, the currency or the total price of a line is absent or,
\* for the amounts, not a number, raises an error: the construction never
\* completes and no card lines are produced for the invoice.
C22_RequiredFieldsRaise ==
    RequiredFieldMissing(xml) => ~Built /\ pac_lines = <<>>

-----------------------------------------------------------------------------
(* The rules on the invoice number and the upper-cased output.             *)

\* the invoice number field of the first header line of the output text:
\* 23 characters after 'Z200101 A', the 9 characters of the VCK and a space
EmittedNumber == Slice(pac_format, 19, 42)

ProcardText(n) ==
    /\ Len(n) >= 8
    /\ Char(n, 1) = "5"
    /\ \A i \in {2, 3, 4, 8} : Char(n, i) \in DigitChars
    /\ \A i \in {5, 6, 7} : Char(n, i) \in UpperChars

\* C28: for every invoice accepted by is_valid, the invoice number as it
\* stands in the emitted, upper-cased output starts with none of the
\* disallowed prefixes and does not match the Procard pattern: a number
\* written in lower or mixed case does not get past the two rules.
C28_EmittedNumberAllowed ==
    (pc = "formatted" /\ valid = TRUE) =>
        /\ \A i \in 1..Len(unwanted_prefixes) :
               ~StartsWith(EmittedNumber, unwanted_prefixes[i])
        /\ ~ProcardText(EmittedNumber)

-----------------------------------------------------------------------------
(* What the shipping split leaves alone.                                   *)

\* line b has the keys of line a and original_price, and differs from a in
\* the given keys at most
SameBut(a, b, keys) ==
    /\ DOMAIN b = DOMAIN a \cup {"original_price"}
    /\ \A k \in DOMAIN a \ keys : b[k] = a[k]

EshKeys == {"total_price", "original_price", "line_number"}
TshKeys == EshKeys \cup {"line_code", "pac_tax_code"}
KeptKeys == {"line_type", "reporting_code", "description", "fund_info"}

SplitFrame(old, new) ==
    LET n == Len(old)
        esh == {i \in 1..n : old[i].line_code = "ESH"}
    IN /\ Len(new) = n + Cardinality(esh)
       /\ \A i \in (1..n) \ esh : new[i] = old[i]
       /\ \A i \in esh :
              /\ SameBut(old[i], new[i], EshKeys)
              /\ KeptKeys \subseteq DOMAIN old[i] \ EshKeys
              /\ \E j \in (n + 1)..Len(new) :
                     /\ new[j].line_number = old[i].line_number \o "-TSH"
                     /\ new[j].line_code = "TSH"
                     /\ SameBut(old[i], new[j], TshKeys)

\* the fund of the XML line that a line was extracted from, by fund code
XmlFundOf(l, code) ==
    LET x == CHOOSE x \in {xml.invoice_line_list[i] :
                              i \in 1..Len(xml.invoice_line_list)} :
                 x.line_number = SourceNumber(l)
    IN CHOOSE f \in {x.fund_info_list[j] : j \in 1..Len(x.fund_info_list)} :
           f.code = code

IsHalf(l) == l.line_code \in {"ESH", "TSH"}

\* C29: the split changes only the amount, original_price and line number of
\* the ESH line and, on the TSH copy, also the line code and the tax
\* classification; line type, reporting code, description and the list of
\* funds are those of the line before the split on both halves, so the Z41
\* cards of each half of a shipping line with several funds carry the fund
\* amounts of the XML, not 80% or 20% of them.
C29_SplitFrame ==
    /\ [][pc = "enriched" => SplitFrame(invoice_lines, invoice_lines')]_vars
    /\ [](Built =>
            \A i \in 1..Len(invoice_lines) :
                LET l == invoice_lines[i]
                IN (IsHalf(l) /\ Len(l.fund_info) > 1) =>
                       \A k \in Z21CardsOf(l) :
                           \A j \in 1..Len(l.fund_info) :
                               /\ StartsWith(pac_lines[k + 3 * j], "Z410101")
                               /\ int(SubSeq(pac_lines[k + 3 * j + 1], 32, 46))
                                      = Abs(Decimal(XmlFundOf(
                                            l, l.fund_info[j].fund_code).sum)))

C29_Witness ==
    /\ pc = "built"
    /\ Len(invoice_lines) = 3
    /\ invoice_lines[2].line_number = "2-ESH"
    /\ invoice_lines[3].line_number = "2-TSH"
    /\ invoice_lines[2].pac_tax_code # invoice_lines[3].pac_tax_code
    /\ invoice_lines[2].total_price = 2000
    /\ invoice_lines[3].total_price = 500
    /\ invoice_lines[2].fund_info = invoice_lines[3].fund_info
    /\ invoice_lines[2].fund_info[1].usd_amount = 1000
    /\ Z21CardsOf(invoice_lines[2]) # {}
    /\ Z21CardsOf(invoice_lines[3]) # {}

-----------------------------------------------------------------------------
(* The batch: errors, the PAC file and the upload.                         *)

Contains(s, part) ==
    \E i \in 1..(Len(s) - Len(part) + 1) :
        SubSeq(s, i, i + Len(part) - 1) = part

IsErrorReport(l) == StartsWith(l, "ERROR: Bad invoice ")
IsMessage(l) == ~IsErrorReport(l) /\ Contains(l, " : ")
IsReport(l) == IsErrorReport(l) \/ IsMessage(l)

\* what was printed about the elements: a validation message or an error
\* report for each
Reports == SelectSeq(printed, IsReport)
Messages == SelectSeq(printed, IsMessage)

ErrorReport(x) == "ERROR: Bad invoice " \o str(x.invoice_number)

\* Invoice(x) raises an error (no batch invoice has a credit tax line)
Raises(x) == x.invoice_number = None \/ decimal_raises(x)

\* the loop is between two elements, or over
BetweenInvoices ==
    driver_pc \in {"loop", "upload", "done"} /\ pc = "idle"

\* the driver has ended and had an XML file
BatchOver ==
    /\ driver_pc \in {"done", "raised"}
    /\ \A i \in 1..Len(printed) : printed[i] # "NO XML FILE TO PROCESS"

NeverAborts(driver) ==
    script = driver =>
        /\ BatchOver => driver_pc = "done" /\ position = Len(root)
        /\ BetweenInvoices =>
               /\ Len(Reports) = position
               /\ \A i \in 1..position :
                      /\ Reports[i] = ErrorReport(root[i])
                             \/ StartsWith(Reports[i],
                                           str(root[i].invoice_number) \o " : ")
                      /\ Raises(root[i]) => Reports[i] = ErrorReport(root[i])

\* C23: in the batch drivers an error raised while an invoice is constructed,
\* validated or written never ends the batch: the error is reported with the
\* invoice number and the loop goes on, so that every invoice element of the
\* document is attempted, in document order, whatever happened before.
C23_BatchNeverAborts == NeverAborts(NewDriver) /\ NeverAborts(OldDriver)

C23_NewDriverNeverAborts == NeverAborts(NewDriver)

\* the rules of is_valid on the element (every batch invoice renders lines
\* of 80 ASCII characters)
Accepted(x) ==
    /\ ~Raises(x)
    /\ x.vendor_code # "LBS"
    /\ x.vendor_FinancialSys_Code # None
    /\ \A k \in 1..Len(unwanted_prefixes) :
           ~StartsWith(x.invoice_number, unwanted_prefixes[k])
    /\ ~ProcardText(x.invoice_number)

FileText == IF pac_file = None THEN "" ELSE pac_file
FileLine(k) == SubSeq(FileText, 81 * (k - 1) + 1, 81 * k - 1)
IsHeaderLine(l) == StartsWith(l, "Z200101")

\* the invoice number fields of the first header lines in the file, in order
FileNumbers ==
    LET headers == SelectSeq([k \in 1..(Len(FileText) \div 81) |-> FileLine(k)],
                             IsHeaderLine)
    IN [k \in 1..Len(headers) |-> SubSeq(headers[k], 20, 42)]

\* the elements taken so far whose report is an error report
Errored(i) == Reports[i] = ErrorReport(root[i])

\* the invoice number fields of the blocks of the accepted elements on which
\* no error was raised, in document order
AcceptedNumbers ==
    LET RECURSIVE upto(_)
        upto(i) ==
            IF i = 0 THEN <<>>
            ELSE IF Accepted(root[i]) /\ ~Errored(i)
            THEN Append(upto(i - 1),
                        ljust(upper(root[i].invoice_number), 23, " "))
            ELSE upto(i - 1)
    IN upto(position)

Constructed == {i \in 1..position : ~Raises(root[i])}

\* create_pac_invoices runs, or has run, in production mode
ProductionBatch ==
    /\ script = NewDriver
    /\ driver_pc \in {"loop", "upload", "done"}
    /\ \A i \in 1..Len(printed) : printed[i] # "NO XML FILE TO PROCESS"
    /\ production_mode = TRUE

\* the file is made of the blocks that get_pac_format returned, each appended
\* whole, after the file of an earlier run was removed
FileOfBlocks ==
    /\ [][(script = NewDriver /\ driver_pc = "create") => pac_file' = None]_vars
    /\ [][(script = NewDriver /\ driver_pc = "loop" /\ pac_file' # pac_file) =>
              /\ pc' = "written"
              /\ valid = TRUE
              /\ pac_file' = FileText \o pac_format]_vars
    /\ [](ProductionBatch /\ BetweenInvoices =>
              /\ Len(FileText) % 81 = 0
              /\ Len(Reports) = position
              /\ FileNumbers = AcceptedNumbers)

\* C24 as stated: after create_pac_invoices has processed a batch in
\* production mode the PAC file holds the get_pac_format blocks of the
\* accepted invoices, in document order, and nothing of rejected or errored
\* invoices or of an earlier file; and one validation message is printed for
\* every invoice that was constructed, accepted or rejected.
C24_FileAndMessagesAsStated ==
    /\ FileOfBlocks
    /\ [](ProductionBatch /\ BetweenInvoices =>
              /\ Len(Messages) = Cardinality(Constructed)
              /\ \A i \in Constructed : IsMessage(Reports[i]))

\* C24, amended: ... and one validation message is printed for every invoice
\* that was constructed, accepted or rejected, except an accepted invoice
\* whose write raised an error: for it the error report is printed instead
\* and the file has no block.
C24_FileAndMessages ==
    /\ FileOfBlocks
    /\ [](ProductionBatch /\ BetweenInvoices =>
              \A i \in 1..position :
                  /\ Raises(root[i]) => Errored(i)
                  /\ (~Raises(root[i]) /\ ~Accepted(root[i])) =>
                         /\ IsMessage(Reports[i])
                         /\ Reports[i] # root[i].invoice_number \o " : OK"
                  /\ Accepted(root[i]) =>
                         \/ Reports[i] = root[i].invoice_number \o " : OK"
                         \/ Errored(i))

C24_Witness ==
    /\ ProductionBatch
    /\ driver_pc = "upload"
    /\ position = 2
    /\ Accepted(root[1])
    /\ Raises(root[2]) \/ ~Accepted(root[2])
    /\ Len(FileNumbers) = 1
    /\ Len(Messages) >= 1
    /\ argv.xml_file = None

\* C27: when main runs without --production, no PAC file is ever uploaded,
\* whatever --skip_upload and --xml_file are: nothing converted from the
\* sandbox reaches upload_pac_file.
C27_SandboxNeverUploads ==
    (script = NewDriver /\ ~argv.production) => uploaded = <<>>

C27_Witness ==
    /\ script = NewDriver
    /\ ~argv.production
    /\ argv.skip_upload
    /\ driver_pc = "done"
    /\ ~args.skip_upload
    /\ position = 2
    /\ Accepted(root[1])
    /\ Reports[1] = root[1].invoice_number \o " : OK"
    /\ printed[Len(printed)] = pac_filename \o " does not exist"
    /\ uploaded = <<>>

-----------------------------------------------------------------------------
(* The bookplate functions.                                                *)

Has(field, code) == get_subfields(field, code) # <<>>
First(field, code) == get_subfields(field, code)[1]
AtMostOne(field, code) == Len(get_subfields(field, code)) <= 1

\* the URL of the item differs from the field's: it is empty while $c is
\* present, or not empty while $c is absent or different
UrlDiffers(field, url) ==
    \/ url = "" /\ Has(field, "c")
    \/ url # "" /\ (~Has(field, "c") \/ First(field, "c") # url)

StatedNeedsUpdate(field, item) ==
    IF First(field, "a") # item.spac_code THEN FALSE
    ELSE UrlDiffers(field, item.spac_url)
             \/ First(field, "b") # item.spac_name

\* C25: needs_bookplate_update(field, code, name, url) of add_bib_ebookplates
\* returns False whenever $a of the field differs from code, whatever name
\* and url are; when $a equals code it returns True exactly when the URL
\* differs or name differs from $b, and False otherwise.
C25_NeedsUpdate ==
    (called = "needs_bookplate_update" /\ Has(field_966, "a")
        /\ Has(field_966, "b")) =>
        needs_update = StatedNeedsUpdate(field_966, report_item)

C25_Witness ==
    /\ called = "needs_bookplate_update"
    /\ Has(field_966, "a")
    /\ Has(field_966, "b")
    /\ Has(field_966, "c")
    /\ First(field_966, "a") = report_item.spac_code
    /\ First(field_966, "c") = report_item.spac_url
    /\ First(field_966, "b") # report_item.spac_name
    /\ needs_update = TRUE

IsUpdateCall(name) ==
    name \in {"update_existing_966", "update_existing_966_one_time"}

\* C26: after update_existing_966(field, name, url) on a 966 field with at
\* most one $b and one $c, $b of the field is name, $c is url when url is
\* not empty and is absent when it is empty, and $a is unchanged, in
\* add_bib_ebookplates and in update_bookplates_one_time alike.
C26_UpdateExisting ==
    [][(IsUpdateCall(called') /\ AtMostOne(field_966, "b")
           /\ AtMostOne(field_966, "c")) =>
          /\ get_subfields(field_966', "b") = <<report_item.spac_name>>
          /\ get_subfields(field_966', "c") =
                 (IF report_item.spac_url # "" THEN <<report_item.spac_url>>
                  ELSE <<>>)
          /\ get_subfields(field_966', "a") = get_subfields(field_966, "a")
          /\ get_subfields(field_966', "9") = get_subfields(field_966, "9")]_vars

C26_Witness ==
    /\ called = "update_existing_966_one_time"
    /\ report_item.spac_url = ""
    /\ report_item.spac_name = "Different SPAC Name"
    /\ field_966 = <<Subfield("a", "SPAC"), Subfield("9", "LOCAL"),
                     Subfield("b", "Different SPAC Name")>>

\* the number of 966 fields of the record with the code of the item
CodeCount(record) ==
    Cardinality({i \in 1..Len(record) :
                    First(record[i], "a") = report_item.spac_code})

Handled == total_bibs_updated + total_bibs_skipped

\* C30: once add_bookplates has handled a report item on a bib whose 966
\* fields have one $a, one $b and at most one $c each, is_new_966 is false
\* and needs_bookplate_update is false for every 966 of the bib, so handling
\* the item again skips the bib, changes nothing, and never adds a second
\* 966 for the code.
C30_Converges ==
    /\ [](Handled >= 1 =>
              /\ ~is_new_966(marc_record, report_item.spac_code)
              /\ \A i \in 1..Len(marc_record) :
                     needs_bookplate_update(marc_record[i],
                                            report_item.spac_code,
                                            report_item.spac_name,
                                            report_item.spac_url) = FALSE)
    /\ [][(Handled >= 1 /\ Handled' = Handled + 1) =>
              /\ marc_record' = marc_record
              /\ total_bibs_skipped' = total_bibs_skipped + 1]_vars
    /\ [][Handled' = Handled + 1 =>
              CodeCount(marc_record') =
                  (IF CodeCount(marc_record) = 0 THEN 1
                   ELSE CodeCount(marc_record))]_vars

C30_Witness ==
    /\ total_bibs_updated = 1
    /\ total_bibs_skipped = 1
    /\ Len(marc_record) = 2
    /\ CodeCount(marc_record) = 2
    /\ marc_record[1] = marc_record[2]
    /\ report_item.spac_url # ""

====
